---------------------------- MODULE Spec2Model ----------------------------
(***************************************************************************)
(* mc-controller: the reconcile loops of the Bucket, User, Policy,         *)
(* PolicyAttachment, Alias and Endpoint controllers, the connection        *)
(* resolver (buildClientConfig) and the condition list (SetCondition).     *)
(*                                                                         *)
(* One resource of one kind is followed through the store.  A reconcile    *)
(* pass is one action: it runs the whole Reconcile function of the kind,   *)
(* every store write and every remote call included, and leaves in `pass`  *)
(* the calls it made (in order) and the result it returned.  What the      *)
(* environment decides (a store write that conflicts or fails, a remote    *)
(* call that fails) is a choice among the outcomes of the pass.            *)
(***************************************************************************)
EXTENDS Integers, Sequences, FiniteSets, TLC

VARIABLES
    kind,     \* the kind of the reconciled resource (fixed per behaviour)
    obj,      \* the resource as the store holds it
    k8s,      \* the other store objects a pass reads: aliases, endpoints, secrets
    remote,   \* the state of the MinIO server
    now,      \* the clock read by metav1.Now() / time.Now()
    pass,     \* the pass that has just ended: its calls, in order, and its result
    resolution \* the resolver on its own: a connection block and the calls made with it

vars == <<kind, obj, k8s, remote, now, pass, resolution>>

(***************************************************************************)
(* Bounds of the model.                                                    *)
(***************************************************************************)
MaxGen == 2
MaxCalls == 3
MaxTime == 3
MaxSteps == 8

(***************************************************************************)
(* time.Second, time.Minute, time.Hour, in seconds.                        *)
(***************************************************************************)
Second == 1
Minute == 60
Hour == 3600

Kinds == {"Bucket", "User", "Policy", "PolicyAttachment", "Alias", "Endpoint"}

\* A Go pointer: nil, or a pointer to x.
Nil == <<>>
Some(x) == <<x>>
Deref(p) == p[1]

Namespace == "ns1"

\* A MinIOConnection block.
MinIOConnection(aliasRef, url, endpointRef, secretRef) ==
    [AliasRef |-> aliasRef, URL |-> url, EndpointRef |-> endpointRef,
     SecretRef |-> secretRef, TLS |-> Nil]

(***************************************************************************)
(* api/v1alpha1: conditions.                                               *)
(***************************************************************************)
ConditionReady == "Ready"
ConditionProgressing == "Progressing"
ConditionError == "Error"

\* The index of the first condition of type t in conditions, 0 when none.
IndexOf(conditions, t) ==
    LET hits == {i \in 1..Len(conditions) : conditions[i].Type = t}
    IN IF hits = {} THEN 0 ELSE CHOOSE i \in hits : \A j \in hits : i <= j

\* SetCondition with the list restarted at a condition type it does not hold.
SetConditionRestarting(conditions, conditionType, status, reason, message, t) ==
    LET i == IndexOf(conditions, conditionType)
    IN IF i # 0
       THEN IF conditions[i].Status # status
            THEN [conditions EXCEPT ![i] =
                     [Type |-> conditionType, Status |-> status,
                      LastTransitionTime |-> t,
                      Reason |-> reason, Message |-> message]]
            ELSE [conditions EXCEPT ![i] =
                     [@ EXCEPT !.Reason = reason, !.Message = message]]
       ELSE <<[Type |-> conditionType, Status |-> status,
               LastTransitionTime |-> t,
               Reason |-> reason, Message |-> message]>>

\* SetCondition without its search: the condition is always appended.
SetConditionAppending(conditions, conditionType, status, reason, message, t) ==
    Append(conditions,
           [Type |-> conditionType, Status |-> status,
            LastTransitionTime |-> t,
            Reason |-> reason, Message |-> message])

\* SetCondition with the time taken on every call: both branches of the
\* status test assign LastTransitionTime.
SetConditionStamping(conditions, conditionType, status, reason, message, t) ==
    LET i == IndexOf(conditions, conditionType)
    IN IF i # 0
       THEN IF conditions[i].Status # status
            THEN [conditions EXCEPT ![i] =
                     [Type |-> conditionType, Status |-> status,
                      LastTransitionTime |-> t,
                      Reason |-> reason, Message |-> message]]
            ELSE [conditions EXCEPT ![i] =
                     [@ EXCEPT !.LastTransitionTime = t,
                               !.Reason = reason, !.Message = message]]
       ELSE Append(conditions,
                   [Type |-> conditionType, Status |-> status,
                    LastTransitionTime |-> t,
                    Reason |-> reason, Message |-> message])

SetCondition(conditions, conditionType, status, reason, message, t) ==
    LET i == IndexOf(conditions, conditionType)
    IN IF i # 0
       THEN IF conditions[i].Status # status
            THEN [conditions EXCEPT ![i] =
                     [Type |-> conditionType, Status |-> status,
                      LastTransitionTime |-> t,
                      Reason |-> reason, Message |-> message]]
            ELSE [conditions EXCEPT ![i] =
                     [@ EXCEPT !.Reason = reason, !.Message = message]]
       ELSE Append(conditions,
                   [Type |-> conditionType, Status |-> status,
                    LastTransitionTime |-> t,
                    Reason |-> reason, Message |-> message])

GetCondition(conditions, conditionType) ==
    LET i == IndexOf(conditions, conditionType)
    IN IF i = 0 THEN Nil ELSE Some(conditions[i])


(***************************************************************************)
(* internal/minio: the connection resolver.                                *)
(* The store read by the resolver is a record of three maps, each from a   *)
(* key <<namespace, name>> to the object: store.aliases, store.endpoints,  *)
(* store.secrets (a secret is its Data map).  A key outside the domain is  *)
(* an object the Get does not find.                                        *)
(* The result is [err, config, gets]: err is "" for nil, config is the     *)
(* returned *ClientConfig (nil on error), gets are the store fetches made, *)
(* in order.                                                               *)
(***************************************************************************)
ClientConfig ==
    [Endpoint |-> "", AccessKeyID |-> "", SecretAccessKey |-> "",
     UseSSL |-> TRUE, Insecure |-> FALSE, PathStyle |-> FALSE, Region |-> ""]

ResolveError(e, gets) == [err |-> e, config |-> Nil, gets |-> gets]

\* readCredentials without the two `if !ok` returns: an entry the secret
\* lacks would be read as the empty string.
readCredentialsLenient(store, secretNamespace, ref, config, gets) ==
    LET key == <<secretNamespace, ref.Name>>
        fetched == Append(gets, <<"Secret", secretNamespace, ref.Name>>)
    IN IF key \notin DOMAIN store.secrets
       THEN ResolveError("SecretNotFound", fetched)
       ELSE LET data == store.secrets[key]
                accessKeyIDKey ==
                    IF ref.AccessKeyIDKey = "" THEN "accessKeyID"
                    ELSE ref.AccessKeyIDKey
                secretAccessKeyKey ==
                    IF ref.SecretAccessKeyKey = "" THEN "secretAccessKey"
                    ELSE ref.SecretAccessKeyKey
            IN [err |-> "",
                config |-> Some([config EXCEPT
                    !.AccessKeyID =
                        IF accessKeyIDKey \in DOMAIN data
                        THEN data[accessKeyIDKey] ELSE "",
                    !.SecretAccessKey =
                        IF secretAccessKeyKey \in DOMAIN data
                        THEN data[secretAccessKeyKey] ELSE ""]),
                gets |-> fetched]

\* Fetch the secret ref names in secretNamespace and copy the two keys.
readCredentials(store, secretNamespace, ref, config, gets) ==
    LET key == <<secretNamespace, ref.Name>>
        fetched == Append(gets, <<"Secret", secretNamespace, ref.Name>>)
    IN IF key \notin DOMAIN store.secrets
       THEN ResolveError("SecretNotFound", fetched)
       ELSE LET data == store.secrets[key]
                accessKeyIDKey ==
                    IF ref.AccessKeyIDKey = "" THEN "accessKeyID"
                    ELSE ref.AccessKeyIDKey
                secretAccessKeyKey ==
                    IF ref.SecretAccessKeyKey = "" THEN "secretAccessKey"
                    ELSE ref.SecretAccessKeyKey
            IN IF accessKeyIDKey \notin DOMAIN data
               THEN ResolveError("AccessKeyMissing", fetched)
               ELSE IF secretAccessKeyKey \notin DOMAIN data
               THEN ResolveError("SecretKeyMissing", fetched)
               ELSE [err |-> "",
                     config |-> Some([config EXCEPT
                         !.AccessKeyID = data[accessKeyIDKey],
                         !.SecretAccessKey = data[secretAccessKeyKey]]),
                     gets |-> fetched]

\* resolveThroughRef without the test of Status.Ready: the connection of an
\* Alias or Endpoint that is not ready would be resolved.
resolveThroughRefUnchecked(store, objects, what, ref, defaultNamespace) ==
    LET refNamespace ==
            IF ref.Namespace # Nil THEN Deref(ref.Namespace) ELSE defaultNamespace
        key == <<refNamespace, ref.Name>>
        gets == << <<what, refNamespace, ref.Name>> >>
    IN IF key \notin DOMAIN objects
       THEN ResolveError(what \o "NotFound", gets)
       ELSE LET target == objects[key]
                config == [ClientConfig EXCEPT
                    !.Endpoint = target.Spec.URL,
                    !.PathStyle = IF target.Spec.PathStyle THEN TRUE ELSE @,
                    !.Region = IF target.Spec.Region # Nil
                               THEN Deref(target.Spec.Region) ELSE @,
                    !.Insecure = IF target.Spec.TLS # Nil
                                 THEN Deref(target.Spec.TLS).Insecure ELSE @]
                secretNamespace ==
                    IF target.Spec.SecretRef.Namespace # Nil
                    THEN Deref(target.Spec.SecretRef.Namespace)
                    ELSE refNamespace
            IN readCredentials(store, secretNamespace,
                               target.Spec.SecretRef, config, gets)

\* resolveThroughRef with `secretNamespace := defaultNamespace`: a SecretRef
\* without a namespace would be looked up in the caller's namespace.
resolveThroughRefFromCaller(store, objects, what, ref, defaultNamespace) ==
    LET refNamespace ==
            IF ref.Namespace # Nil THEN Deref(ref.Namespace) ELSE defaultNamespace
        key == <<refNamespace, ref.Name>>
        gets == << <<what, refNamespace, ref.Name>> >>
    IN IF key \notin DOMAIN objects
       THEN ResolveError(what \o "NotFound", gets)
       ELSE LET target == objects[key]
            IN IF ~target.Status.Ready
               THEN ResolveError(what \o "NotReady", gets)
               ELSE LET config == [ClientConfig EXCEPT
                            !.Endpoint = target.Spec.URL,
                            !.PathStyle = IF target.Spec.PathStyle THEN TRUE ELSE @,
                            !.Region = IF target.Spec.Region # Nil
                                       THEN Deref(target.Spec.Region) ELSE @,
                            !.Insecure = IF target.Spec.TLS # Nil
                                         THEN Deref(target.Spec.TLS).Insecure ELSE @]
                        secretNamespace ==
                            IF target.Spec.SecretRef.Namespace # Nil
                            THEN Deref(target.Spec.SecretRef.Namespace)
                            ELSE defaultNamespace
                    IN readCredentials(store, secretNamespace,
                                       target.Spec.SecretRef, config, gets)

\* The Alias and the Endpoint branch: the same code on the two kinds of object.
resolveThroughRef(store, objects, what, ref, defaultNamespace) ==
    LET refNamespace ==
            IF ref.Namespace # Nil THEN Deref(ref.Namespace) ELSE defaultNamespace
        key == <<refNamespace, ref.Name>>
        gets == << <<what, refNamespace, ref.Name>> >>
    IN IF key \notin DOMAIN objects
       THEN ResolveError(what \o "NotFound", gets)
       ELSE LET target == objects[key]
            IN IF ~target.Status.Ready
               THEN ResolveError(what \o "NotReady", gets)
               ELSE LET config == [ClientConfig EXCEPT
                            !.Endpoint = target.Spec.URL,
                            !.PathStyle = IF target.Spec.PathStyle THEN TRUE ELSE @,
                            !.Region = IF target.Spec.Region # Nil
                                       THEN Deref(target.Spec.Region) ELSE @,
                            !.Insecure = IF target.Spec.TLS # Nil
                                         THEN Deref(target.Spec.TLS).Insecure ELSE @]
                        secretNamespace ==
                            IF target.Spec.SecretRef.Namespace # Nil
                            THEN Deref(target.Spec.SecretRef.Namespace)
                            ELSE refNamespace
                    IN readCredentials(store, secretNamespace,
                                       target.Spec.SecretRef, config, gets)

\* urlCredentials without its last lines: the TLS block of the connection
\* would not be applied.
urlCredentialsWithoutTLS(store, conn, defaultNamespace, r) ==
    IF r.err # "" THEN r
    ELSE IF conn.URL # Nil /\ conn.SecretRef # Nil
    THEN LET ref == Deref(conn.SecretRef)
             secretNamespace ==
                 IF ref.Namespace # Nil THEN Deref(ref.Namespace)
                 ELSE defaultNamespace
         IN readCredentials(store, secretNamespace, ref, Deref(r.config), r.gets)
    ELSE r

\* Lines 252-295: the credentials of a URL connection.
urlCredentials(store, conn, defaultNamespace, r) ==
    IF r.err # "" THEN r
    ELSE IF conn.URL # Nil /\ conn.SecretRef # Nil
    THEN LET ref == Deref(conn.SecretRef)
             secretNamespace ==
                 IF ref.Namespace # Nil THEN Deref(ref.Namespace)
                 ELSE defaultNamespace
             c == readCredentials(store, secretNamespace, ref,
                                  Deref(r.config), r.gets)
         IN IF c.err # "" THEN c
            ELSE IF conn.TLS # Nil
            THEN [c EXCEPT !.config =
                     Some([Deref(c.config) EXCEPT
                              !.Insecure = Deref(conn.TLS).Insecure])]
            ELSE c
    ELSE r

\* buildClientConfig with a memory: when the Alias or Endpoint is found not
\* ready, the result of the last call that succeeded is returned again.
buildClientConfigRemembering(store, conn, defaultNamespace) ==
    LET fresh ==
            urlCredentials(store, conn, defaultNamespace,
                IF conn.AliasRef # Nil
                THEN resolveThroughRef(store, store.aliases, "Alias",
                                       Deref(conn.AliasRef), defaultNamespace)
                ELSE IF conn.URL # Nil
                THEN [err |-> "",
                      config |-> Some([ClientConfig EXCEPT
                                          !.Endpoint = Deref(conn.URL)]),
                      gets |-> <<>>]
                ELSE IF conn.EndpointRef # Nil
                THEN resolveThroughRef(store, store.endpoints, "Endpoint",
                                       Deref(conn.EndpointRef), defaultNamespace)
                ELSE ResolveError("NoSource", <<>>))
        good == {i \in DOMAIN resolution.calls : resolution.calls[i].result.err = ""}
    IN IF fresh.err \in {"AliasNotReady", "EndpointNotReady"} /\ good # {}
       THEN resolution.calls[CHOOSE i \in good : \A j \in good : j <= i].result
       ELSE fresh

buildClientConfig(store, conn, defaultNamespace) ==
    urlCredentials(store, conn, defaultNamespace,
        IF conn.AliasRef # Nil
        THEN resolveThroughRef(store, store.aliases, "Alias",
                               Deref(conn.AliasRef), defaultNamespace)
        ELSE IF conn.URL # Nil
        THEN [err |-> "",
              config |-> Some([ClientConfig EXCEPT !.Endpoint = Deref(conn.URL)]),
              gets |-> <<>>]
        ELSE IF conn.EndpointRef # Nil
        THEN resolveThroughRef(store, store.endpoints, "Endpoint",
                               Deref(conn.EndpointRef), defaultNamespace)
        ELSE ResolveError("NoSource", <<>>))


(***************************************************************************)
(* A reconcile pass.                                                       *)
(*                                                                         *)
(* A pass state p follows one execution of Reconcile:                      *)
(*   p.o      the in-memory object the pass works on                       *)
(*   p.st     the object in the store, p.k8s the other store objects       *)
(*   p.rm     the MinIO server                                             *)
(*   p.t      the clock                                                    *)
(*   p.tr     the calls made so far (store and remote) and what reconcileX *)
(*            returned, in order                                           *)
(*   p.err    Go's err after the last call ("" is nil)                     *)
(*   p.val    the value the last query returned                            *)
(*   p.ret, p.result   the called function (reconcileX) has returned       *)
(*   p.done, p.res     Reconcile has returned res = [RequeueAfter, err]    *)
(* A step maps a pass state to the set of pass states it can lead to, one  *)
(* per outcome the environment can give the call.                          *)
(***************************************************************************)
Ev(op, out, arg) == [op |-> op, out |-> out, arg |-> arg]

\* The process running the pass can stop between two calls (a crash, a
\* cancelled context): p.left counts the calls the pass still makes before
\* that, 0 for a pass that runs to its return.  Once stopped (p.dead) the
\* pass makes no call and returns nothing.
Spend(p) ==
    IF p.left = 1
    THEN [p EXCEPT !.tr = Append(@, Ev("abandoned", "", <<>>)), !.left = 0,
                   !.dead = TRUE, !.done = TRUE, !.ret = TRUE]
    ELSE [p EXCEPT !.left = IF @ > 0 THEN @ - 1 ELSE @]

Log(p, e) ==
    IF p.dead THEN p
    ELSE IF e.op = "reconcile" THEN [p EXCEPT !.tr = Append(@, e)]
    ELSE Spend([p EXCEPT !.tr = Append(@, e)])

Result(after) == [RequeueAfter |-> after]

\* return result, err  (from Reconcile or handleDeletion)
Return(p, after, failed) ==
    IF p.dead THEN p
    ELSE [p EXCEPT !.done = TRUE, !.res = [RequeueAfter |-> after, err |-> failed]]

\* return result, err  (from reconcileX); the trace keeps what was returned.
ReturnInner(p, after, e) ==
    [Log(p, Ev("reconcile", IF e = "" THEN "ok" ELSE "error", <<e>>))
        EXCEPT !.ret = TRUE, !.result = Result(after), !.err = e]

\* Run step F on every pass state of S in which Reconcile has not returned.
Then(S, F(_)) == UNION {IF p.done THEN {p} ELSE F(p) : p \in S}

\* The same inside reconcileX.
ThenInner(S, F(_)) == UNION {IF p.ret THEN {p} ELSE F(p) : p \in S}

Str(b) == IF b THEN "true" ELSE "false"

(***************************************************************************)
(* The store (the Kubernetes API server), as the controllers use it.       *)
(***************************************************************************)
Gone ==
    [exists |-> FALSE, deleting |-> FALSE, fin |-> FALSE, otherFin |-> FALSE,
     gen |-> 0, spec |-> <<>>, status |-> <<>>]

\* The store erases an object that has a deletion timestamp and no finalizer.
Settle(o) ==
    IF o.exists /\ o.deleting /\ ~o.fin /\ ~o.otherFin THEN Gone ELSE o

\* r.Get(ctx, req.NamespacedName, obj)
Get(p) ==
    IF p.dead THEN {p}
    ELSE IF ~p.st.exists
    THEN {Return(Log(p, Ev("Get", "notfound", <<>>)), 0, FALSE)}
    ELSE {[Log(p, Ev("Get", "ok", <<>>)) EXCEPT !.o = p.st],
          Return(Log(p, Ev("Get", "error", <<>>)), 0, TRUE)}

\* r.Update(ctx, obj): writes the object's metadata and spec; the status
\* subresource is not written.  The write can conflict or fail.
Update(p) ==
    LET arg == <<IF p.o.fin THEN "finalizer" ELSE "no finalizer">>
        written == Settle([p.st EXCEPT !.fin = p.o.fin, !.spec = p.o.spec])
    IN IF p.dead THEN {p} ELSE
       {[Log(p, Ev("Update", "ok", arg)) EXCEPT !.st = written, !.err = ""],
        [Log(p, Ev("Update", "conflict", arg)) EXCEPT !.err = "conflict"],
        [Log(p, Ev("Update", "error", arg)) EXCEPT !.err = "error"]}

\* r.Status().Update(ctx, obj): writes the object's status.
StatusUpdate(p) ==
    LET arg == <<Str(p.o.status.Ready)>>
    IN IF p.dead THEN {p} ELSE
       {[Log(p, Ev("StatusUpdate", "ok", arg)) EXCEPT
             !.st = [p.st EXCEPT !.status = p.o.status], !.err = ""],
        [Log(p, Ev("StatusUpdate", "conflict", arg)) EXCEPT !.err = "conflict"],
        [Log(p, Ev("StatusUpdate", "error", arg)) EXCEPT !.err = "error"]}

(***************************************************************************)
(* The MinIO server, as the SDK calls reach it.  Every call can fail (the  *)
(* server is unreachable, the credentials are refused); a call that fails  *)
(* leaves the server as it was.                                            *)
(***************************************************************************)
\* A call that changes the server to `after` when it succeeds.
Mutate(p, op, arg, after) ==
    IF p.dead THEN {p} ELSE
    {[Log(p, Ev(op, "ok", arg)) EXCEPT !.rm = after, !.err = ""],
     [Log(p, Ev(op, "error", arg)) EXCEPT !.err = "error"]}

\* A call that returns `value`.
Query(p, op, arg, value) ==
    IF p.dead THEN {p} ELSE
    {[Log(p, Ev(op, "ok", arg)) EXCEPT !.val = value, !.err = ""],
     [Log(p, Ev(op, "error", arg)) EXCEPT !.err = "error"]}

\* A call that returns an error for an entity the server does not have
\* (GetUserInfo, InfoCannedPolicy).
Lookup(p, op, arg, found, value) ==
    IF p.dead THEN {p}
    ELSE IF found THEN Query(p, op, arg, value)
    ELSE {[Log(p, Ev(op, "notfound", arg)) EXCEPT !.err = "notfound"],
          [Log(p, Ev(op, "error", arg)) EXCEPT !.err = "error"]}

\* minioclient.NewClient: the connection is resolved against the store.
NewClient(p, conn) ==
    LET r == buildClientConfig(p.k8s, conn, Namespace)
        fetches == [i \in 1..Len(r.gets) |-> Ev("Fetch", r.gets[i][1], Tail(r.gets[i]))]
    IN IF p.dead THEN p
       ELSE Spend([p EXCEPT !.tr = (@ \o fetches) \o
                       <<Ev("NewClient", IF r.err = "" THEN "ok" ELSE r.err, <<>>)>>,
                     !.err = r.err, !.cfg = r.config])

\* errorStatus without its first line: the pass would report ready false
\* and no Error condition.
errorStatusSilent(status, reason, message, t) ==
    [status EXCEPT !.Ready = FALSE]

\* The in-memory status after the lines every error path of Reconcile shares:
\* SetCondition(Error, True, reason, message); Status.Ready = false.
errorStatus(status, reason, message, t) ==
    [status EXCEPT
        !.Conditions = SetCondition(@, ConditionError, "True", reason, message, t),
        !.Ready = FALSE]

\* progressingStatus without its lines: the status written before the work
\* of the pass would be the stored one.
progressingStatusUnmarked(o, message, t) == o.status

\* progressingStatus without its second line: the pass would not record the
\* generation it works on.
progressingStatusKeepingGeneration(o, message, t) ==
    [o.status EXCEPT
        !.Conditions = SetCondition(@, ConditionProgressing, "True",
                                    "Reconciling", message, t)]

\* The in-memory status after the lines that open the work of a pass:
\* SetCondition(Progressing, True, ...); Status.ObservedGeneration = Generation.
progressingStatus(o, message, t) ==
    [o.status EXCEPT
        !.Conditions = SetCondition(@, ConditionProgressing, "True",
                                    "Reconciling", message, t),
        !.ObservedGeneration = o.gen]

\* The in-memory status after the lines that close a successful pass.
readyStatus(status, what, t) ==
    [status EXCEPT
        !.Conditions =
            SetCondition(
                SetCondition(@, ConditionReady, "True", "Ready", what \o " is ready", t),
                ConditionProgressing, "False", "Ready",
                what \o " reconciliation completed", t),
        !.Ready = TRUE,
        !.LastSyncTime = t]


(***************************************************************************)
(* The Bucket controller.                                                  *)
(***************************************************************************)
BucketAbsent == [exists |-> FALSE, versioning |-> FALSE, tags |-> "", objects |-> FALSE]

\* emptyBucket: list the objects and remove each one.
emptyBucket(p, bucketName) ==
    UNION {IF l.err # "" THEN {l}
           ELSE IF l.val
           THEN Mutate(l, "RemoveObject", <<bucketName>>,
                       [l.rm EXCEPT !.bucket.objects = FALSE])
           ELSE {l}
           : l \in Query(p, "ListObjects", <<bucketName>>, p.rm.bucket.objects)}

\* handleDeletion
BucketHandleDeletion(p) ==
    LET name == p.o.spec.BucketName
        removeFinalizer(q) ==
            {Return(w, 0, w.err # "") : w \in Update([q EXCEPT !.o.fin = FALSE])}
        removeBucket(q) ==
            UNION {IF e.err # "" THEN {Return(e, Minute, FALSE)}
                   ELSE UNION {IF r.err # "" THEN {Return(r, Minute, FALSE)}
                               ELSE removeFinalizer(r)
                               : r \in Mutate(e, "RemoveBucket", <<name>>,
                                              [e.rm EXCEPT !.bucket = BucketAbsent])}
                   : e \in emptyBucket(q, name)}
    IN IF p.o.fin
       THEN LET c == NewClient(p, p.o.spec.Connection)
            IN IF c.err # "" THEN {Return(c, Minute, FALSE)}
               ELSE UNION {IF q.err # "" THEN {Return(q, Minute, FALSE)}
                           ELSE IF q.val THEN removeBucket(q)
                           ELSE removeFinalizer(q)
                           : q \in Query(c, "BucketExists", <<name>>,
                                         c.rm.bucket.exists)}
       ELSE {Return(p, 0, FALSE)}

\* reconcileBucket without the test of `exists`: MakeBucket would be
\* called in every pass.
reconcileBucketCreating(p) ==
    LET spec == p.o.spec
        name == spec.BucketName
        region == IF spec.Region # Nil THEN Deref(spec.Region) ELSE ""
        create(q) ==
            LET q1 == IF spec.Region # Nil
                      THEN [q EXCEPT !.o.status.Region = region] ELSE q
            IN {IF m.err # ""
                THEN ReturnInner(m, Minute, "failed to create bucket")
                ELSE [m EXCEPT !.o.status.CreationDate = m.t]
                : m \in Mutate(q1, "MakeBucket",
                               <<name, region, Str(spec.ObjectLocking)>>,
                               [q1.rm EXCEPT !.bucket =
                                   [BucketAbsent EXCEPT !.exists = TRUE]])}
        versioning(q) ==
            IF spec.Versioning
            THEN {IF m.err # ""
                  THEN ReturnInner(m, Minute, "failed to enable versioning") ELSE m
                  : m \in Mutate(q, "SetBucketVersioning", <<name, "Enabled">>,
                                 [q.rm EXCEPT !.bucket.versioning = TRUE])}
            ELSE {q}
        tagging(q) ==
            IF spec.Tags # ""
            THEN {IF m.err # ""
                  THEN ReturnInner(m, Minute, "failed to set bucket tags") ELSE m
                  : m \in Mutate(q, "SetBucketTagging", <<name, spec.Tags>>,
                                 [q.rm EXCEPT !.bucket.tags = spec.Tags])}
            ELSE {q}
        exists ==
            {IF q.err # ""
             THEN ReturnInner(q, Minute, "failed to check bucket existence") ELSE q
             : q \in Query(p, "BucketExists", <<name>>, p.rm.bucket.exists)}
    IN {IF q.ret THEN q ELSE ReturnInner(q, Hour, "")
        : q \in ThenInner(ThenInner(ThenInner(exists, create), versioning), tagging)}

\* reconcileBucket
reconcileBucket(p) ==
    LET spec == p.o.spec
        name == spec.BucketName
        region == IF spec.Region # Nil THEN Deref(spec.Region) ELSE ""
        create(q) ==
            IF q.val THEN {q}
            ELSE LET q1 == IF spec.Region # Nil
                           THEN [q EXCEPT !.o.status.Region = region] ELSE q
                 IN {IF m.err # ""
                     THEN ReturnInner(m, Minute, "failed to create bucket")
                     ELSE [m EXCEPT !.o.status.CreationDate = m.t]
                     : m \in Mutate(q1, "MakeBucket",
                                    <<name, region, Str(spec.ObjectLocking)>>,
                                    [q1.rm EXCEPT !.bucket =
                                        [BucketAbsent EXCEPT !.exists = TRUE]])}
        versioning(q) ==
            IF spec.Versioning
            THEN {IF m.err # ""
                  THEN ReturnInner(m, Minute, "failed to enable versioning") ELSE m
                  : m \in Mutate(q, "SetBucketVersioning", <<name, "Enabled">>,
                                 [q.rm EXCEPT !.bucket.versioning = TRUE])}
            ELSE {q}
        tagging(q) ==
            IF spec.Tags # ""
            THEN {IF m.err # ""
                  THEN ReturnInner(m, Minute, "failed to set bucket tags") ELSE m
                  : m \in Mutate(q, "SetBucketTagging", <<name, spec.Tags>>,
                                 [q.rm EXCEPT !.bucket.tags = spec.Tags])}
            ELSE {q}
        exists ==
            {IF q.err # ""
             THEN ReturnInner(q, Minute, "failed to check bucket existence") ELSE q
             : q \in Query(p, "BucketExists", <<name>>, p.rm.bucket.exists)}
    IN {IF q.ret THEN q ELSE ReturnInner(q, Hour, "")
        : q \in ThenInner(ThenInner(ThenInner(exists, create), versioning), tagging)}

\* BucketAddFinalizer that returns only when the write failed: the pass
\* would go on to the status write and the remote calls.
BucketAddFinalizerContinue(p) ==
    IF p.o.fin THEN {p}
    ELSE {IF w.err # "" THEN Return(w, 0, TRUE) ELSE w
          : w \in Update([p EXCEPT !.o.fin = TRUE])}

\* Reconcile, "Add finalizer if not present": the pass returns the result of
\* the write.
BucketAddFinalizer(p) ==
    IF p.o.fin THEN {p}
    ELSE {Return(w, 0, w.err # "") : w \in Update([p EXCEPT !.o.fin = TRUE])}

\* Reconcile
BucketReconcile(p0) ==
    LET deletion(p) == IF p.o.deleting THEN BucketHandleDeletion(p) ELSE {p}
        progressing(p) ==
            {IF w.err # "" THEN Return(w, 0, TRUE) ELSE w
             : w \in StatusUpdate([p EXCEPT !.o.status =
                         progressingStatus(p.o, "Reconciling bucket", p.t)])}
        client(p) ==
            LET c == NewClient(p, p.o.spec.Connection)
            IN IF c.err # ""
               THEN {Return(w, Minute, FALSE)
                     : w \in StatusUpdate([c EXCEPT !.o.status =
                                 errorStatus(@, "ClientError",
                                             "Failed to create MinIO client", c.t)])}
               ELSE {c}
        reconcile(p) ==
            UNION {IF q.err # ""
                   THEN {Return(w, q.result.RequeueAfter, TRUE)
                         : w \in StatusUpdate([q EXCEPT !.o.status =
                                     [errorStatus(@, "ReconcileError",
                                                  "Failed to reconcile bucket", q.t)
                                         EXCEPT !.LastSyncTime = q.t]])}
                   ELSE {q}
                   : q \in reconcileBucket(p)}
        ready(p) ==
            {IF w.err # "" THEN Return(w, 0, TRUE)
             ELSE Return(w, p.result.RequeueAfter, FALSE)
             : w \in StatusUpdate([p EXCEPT !.o.status =
                         [readyStatus(@, "Bucket", p.t)
                             EXCEPT !.BucketName = p.o.spec.BucketName]])}
    IN Then(Then(Then(Then(Then(Then(Get(p0),
            deletion), BucketAddFinalizer), progressing), client), reconcile), ready)


(***************************************************************************)
(* The User controller.                                                    *)
(***************************************************************************)
UserAbsent == [exists |-> FALSE, enabled |-> FALSE, password |-> "", policy |-> ""]

\* madmin's AddUser and SetUser(..., AccountEnabled): the account gets the
\* password and is enabled.
UserSet(rm, password) ==
    [rm EXCEPT !.user.exists = TRUE, !.user.enabled = TRUE, !.user.password = password]

\* madmin's SetPolicy(policyName, entityName, isGroup)
PolicySet(rm, policyName, isGroup) ==
    IF isGroup THEN [rm EXCEPT !.groupPolicy = policyName]
    ELSE IF rm.user.exists THEN [rm EXCEPT !.user.policy = policyName]
    ELSE rm

\* getPassword: (password, err) in p.val, p.err
getPassword(p) ==
    LET spec == p.o.spec
    IN IF spec.Password # Nil
       THEN [p EXCEPT !.val = Deref(spec.Password), !.err = ""]
       ELSE IF spec.SecretRef = Nil
       THEN [p EXCEPT !.err = "either password or secretRef must be specified"]
       ELSE LET secretRef == Deref(spec.SecretRef)
                secretNamespace ==
                    IF secretRef.Namespace # Nil THEN Deref(secretRef.Namespace)
                    ELSE Namespace
                key == <<secretNamespace, secretRef.Name>>
                q == Log(p, Ev("Fetch", "Secret", key))
                passwordKey ==
                    IF secretRef.SecretAccessKeyKey # ""
                    THEN secretRef.SecretAccessKeyKey ELSE "password"
            IN IF key \notin DOMAIN q.k8s.secrets
               THEN [q EXCEPT !.err = "failed to get password secret"]
               ELSE IF passwordKey \notin DOMAIN q.k8s.secrets[key]
               THEN [q EXCEPT !.err = "password not found in secret"]
               ELSE [q EXCEPT !.val = q.k8s.secrets[key][passwordKey], !.err = ""]

\* handleDeletion without the ContainsFinalizer test: the teardown runs
\* whether or not the resource still carries the finalizer.
UserHandleDeletionUnguarded(p) ==
    LET name == p.o.spec.Username
        removeFinalizer(q) ==
            {Return(w, 0, w.err # "") : w \in Update([q EXCEPT !.o.fin = FALSE])}
        c == NewClient(p, p.o.spec.Connection)
    IN IF c.err # "" THEN {Return(c, Minute, FALSE)}
       ELSE UNION {IF q.err = ""
                   THEN UNION {IF r.err # "" THEN {Return(r, Minute, FALSE)}
                               ELSE removeFinalizer(r)
                               : r \in Mutate(q, "RemoveUser", <<name>>,
                                              [q.rm EXCEPT !.user = UserAbsent])}
                   ELSE removeFinalizer(q)
                   : q \in Lookup(c, "GetUserInfo", <<name>>,
                                  c.rm.user.exists, TRUE)}

\* handleDeletion
UserHandleDeletion(p) ==
    LET name == p.o.spec.Username
        removeFinalizer(q) ==
            {Return(w, 0, w.err # "") : w \in Update([q EXCEPT !.o.fin = FALSE])}
    IN IF p.o.fin
       THEN LET c == NewClient(p, p.o.spec.Connection)
            IN IF c.err # "" THEN {Return(c, Minute, FALSE)}
               ELSE UNION {IF q.err = ""
                           THEN UNION {IF r.err # "" THEN {Return(r, Minute, FALSE)}
                                       ELSE removeFinalizer(r)
                                       : r \in Mutate(q, "RemoveUser", <<name>>,
                                                      [q.rm EXCEPT !.user = UserAbsent])}
                           ELSE removeFinalizer(q)
                           : q \in Lookup(c, "GetUserInfo", <<name>>,
                                          c.rm.user.exists, TRUE)}
       ELSE {Return(p, 0, FALSE)}

\* reconcileUser
reconcileUser(p) ==
    LET spec == p.o.spec
        name == spec.Username
        pw == getPassword(p)
        password == pw.val
        upsert(q) ==
            IF q.err # ""
            THEN {IF m.err # "" THEN ReturnInner(m, Minute, "failed to create user")
                  ELSE [m EXCEPT !.o.status.CreationDate = m.t]
                  : m \in Mutate(q, "AddUser", <<name, password>>,
                                 UserSet(q.rm, password))}
            ELSE {IF m.err # "" THEN ReturnInner(m, Minute, "failed to update user")
                  ELSE m
                  : m \in Mutate(q, "SetUser", <<name, password, "enabled">>,
                                 UserSet(q.rm, password))}
        status == IF spec.Status = "disabled" THEN "disabled" ELSE "enabled"
        setStatus(q) ==
            {IF m.err # "" THEN ReturnInner(m, Minute, "failed to set user status")
             ELSE [m EXCEPT !.o.status.Status = spec.Status,
                            !.o.status.Groups = spec.Groups,
                            !.o.status.Policies = spec.Policies]
             : m \in Mutate(q, "SetUserStatus", <<name, status>>,
                            IF q.rm.user.exists
                            THEN [q.rm EXCEPT !.user.enabled = (status = "enabled")]
                            ELSE q.rm)}
        setPolicy(q) ==
            IF Len(spec.Policies) > 0
            THEN Mutate(q, "SetPolicy", <<spec.Policies[1], name, "false">>,
                        PolicySet(q.rm, spec.Policies[1], FALSE))
            ELSE {q}
    IN IF pw.err # "" THEN {ReturnInner(pw, Minute, "failed to get password")}
       ELSE {IF q.ret THEN q ELSE ReturnInner(q, Hour, "")
             : q \in ThenInner(ThenInner(ThenInner(
                        Lookup(pw, "GetUserInfo", <<name>>, pw.rm.user.exists, TRUE),
                        upsert), setStatus), setPolicy)}

\* Reconcile, "Add finalizer if not present": the pass returns the result of
\* the write.
UserAddFinalizer(p) ==
    IF p.o.fin THEN {p}
    ELSE {Return(w, 0, w.err # "") : w \in Update([p EXCEPT !.o.fin = TRUE])}

\* Reconcile
UserReconcile(p0) ==
    LET deletion(p) == IF p.o.deleting THEN UserHandleDeletion(p) ELSE {p}
        progressing(p) ==
            {IF w.err # "" THEN Return(w, 0, TRUE) ELSE w
             : w \in StatusUpdate([p EXCEPT !.o.status =
                         progressingStatus(p.o, "Reconciling user", p.t)])}
        client(p) ==
            LET c == NewClient(p, p.o.spec.Connection)
            IN IF c.err # ""
               THEN {Return(w, Minute, FALSE)
                     : w \in StatusUpdate([c EXCEPT !.o.status =
                                 errorStatus(@, "ClientError",
                                             "Failed to create MinIO client", c.t)])}
               ELSE {c}
        reconcile(p) ==
            UNION {IF q.err # ""
                   THEN {Return(w, q.result.RequeueAfter, TRUE)
                         : w \in StatusUpdate([q EXCEPT !.o.status =
                                     [errorStatus(@, "ReconcileError",
                                                  "Failed to reconcile user", q.t)
                                         EXCEPT !.LastSyncTime = q.t]])}
                   ELSE {q}
                   : q \in reconcileUser(p)}
        ready(p) ==
            {IF w.err # "" THEN Return(w, 0, TRUE)
             ELSE Return(w, p.result.RequeueAfter, FALSE)
             : w \in StatusUpdate([p EXCEPT !.o.status =
                         [readyStatus(@, "User", p.t)
                             EXCEPT !.Username = p.o.spec.Username]])}
    IN Then(Then(Then(Then(Then(Then(Get(p0),
            deletion), UserAddFinalizer), progressing), client), reconcile), ready)

(***************************************************************************)
(* The Policy controller.                                                  *)
(***************************************************************************)
\* hex.EncodeToString(sha256.Sum256(document))
Hash(document) == "sha256:" \o document

\* PolicyHandleDeletion that does not look at the result of
\* RemoveCannedPolicy: the finalizer would go whether or not the policy did.
PolicyHandleDeletionForced(p) ==
    IF p.o.fin
    THEN LET c == NewClient(p, p.o.spec.Connection)
         IN IF c.err = ""
            THEN UNION {{IF w.err # "" THEN Return(w, 0, TRUE)
                         ELSE Return(w, 0, FALSE)
                         : w \in Update([r EXCEPT !.o.fin = FALSE])}
                        : r \in Mutate(c, "RemoveCannedPolicy",
                                       <<p.o.spec.PolicyName>>,
                                       [c.rm EXCEPT !.policy = ""])}
            ELSE {Return(c, Minute, FALSE)}
    ELSE {Return(p, 0, FALSE)}

\* handleDeletion
PolicyHandleDeletion(p) ==
    LET name == p.o.spec.PolicyName
    IN IF p.o.fin
       THEN LET c == NewClient(p, p.o.spec.Connection)
            IN IF c.err = ""
               THEN UNION {IF r.err # "" THEN {Return(r, Minute, FALSE)}
                           ELSE {IF w.err # "" THEN Return(w, 0, TRUE)
                                 ELSE Return(w, 0, FALSE)
                                 : w \in Update([r EXCEPT !.o.fin = FALSE])}
                           : r \in Mutate(c, "RemoveCannedPolicy", <<name>>,
                                          [c.rm EXCEPT !.policy = ""])}
               ELSE {Return(c, Minute, FALSE)}
       ELSE {Return(p, 0, FALSE)}

\* reconcilePolicy
reconcilePolicy(p) ==
    LET spec == p.o.spec
        name == spec.PolicyName
        desiredBytes == spec.Policy
        hash == Hash(desiredBytes)
        apply(q) ==
            LET exists == q.err = "" /\ q.val # ""
            IN IF ~exists \/ q.o.status.PolicyHash # hash
               THEN {IF m.err # ""
                     THEN ReturnInner(m, Minute, "failed to add/update canned policy")
                     ELSE IF ~exists THEN [m EXCEPT !.o.status.CreationDate = m.t]
                     ELSE m
                     : m \in Mutate(q, "AddCannedPolicy", <<name, desiredBytes>>,
                                    [q.rm EXCEPT !.policy = desiredBytes])}
               ELSE {q}
    IN IF desiredBytes = ""
       THEN {ReturnInner(p, 0, "policy document is empty")}
       ELSE {IF q.ret THEN q
             ELSE ReturnInner([q EXCEPT !.o.status.PolicyHash = hash], Hour, "")
             : q \in ThenInner(Lookup(p, "InfoCannedPolicy", <<name>>,
                                      p.rm.policy # "", p.rm.policy),
                               apply)}

\* PolicyAddFinalizer that does not look at the result of the write: the
\* pass would go on without the finalizer in the store.
PolicyAddFinalizerUnchecked(p) ==
    IF p.o.fin THEN {p} ELSE Update([p EXCEPT !.o.fin = TRUE])

\* Reconcile, "Add finalizer": the pass goes on when the write succeeded.
PolicyAddFinalizer(p) ==
    IF p.o.fin THEN {p}
    ELSE {IF w.err # "" THEN Return(w, 0, TRUE) ELSE w
          : w \in Update([p EXCEPT !.o.fin = TRUE])}

\* Reconcile
PolicyReconcile(p0) ==
    LET deletion(p) == IF p.o.deleting THEN PolicyHandleDeletion(p) ELSE {p}
        progressing(p) ==
            {IF w.err = "conflict" THEN Return(w, Second, FALSE)
             ELSE IF w.err # "" THEN Return(w, 0, TRUE) ELSE w
             : w \in StatusUpdate([p EXCEPT !.o.status =
                         progressingStatus(p.o, "Reconciling policy", p.t)])}
        client(p) ==
            LET c == NewClient(p, p.o.spec.Connection)
            IN IF c.err # ""
               THEN {Return(w, Minute, FALSE)
                     : w \in StatusUpdate([c EXCEPT !.o.status =
                                 errorStatus(@, "ClientError",
                                             "Failed to create MinIO client", c.t)])}
               ELSE {c}
        reconcile(p) ==
            UNION {IF q.err # ""
                   THEN {Return(w, q.result.RequeueAfter, TRUE)
                         : w \in StatusUpdate([q EXCEPT !.o.status =
                                     [errorStatus(@, "ReconcileError",
                                                  "Failed to reconcile policy", q.t)
                                         EXCEPT !.LastSyncTime = q.t]])}
                   ELSE {q}
                   : q \in reconcilePolicy(p)}
        ready(p) ==
            {IF w.err = "conflict" THEN Return(w, Second, FALSE)
             ELSE IF w.err # "" THEN Return(w, 0, TRUE)
             ELSE Return(w, p.result.RequeueAfter, FALSE)
             : w \in StatusUpdate([p EXCEPT !.o.status =
                         [readyStatus(@, "Policy", p.t)
                             EXCEPT !.PolicyName = p.o.spec.PolicyName]])}
    IN Then(Then(Then(Then(Then(Then(Get(p0),
            deletion), PolicyAddFinalizer), progressing), client), reconcile), ready)

(***************************************************************************)
(* The PolicyAttachment controller.                                        *)
(***************************************************************************)
\* resolveTarget: (name, isGroup, err)
resolveTarget(t) ==
    LET user == t.User # Nil /\ Deref(t.User) # ""
        group == t.Group # Nil /\ Deref(t.Group) # ""
        serviceAccount == t.ServiceAccount # Nil /\ Deref(t.ServiceAccount) # ""
        count == (IF user THEN 1 ELSE 0) + (IF group THEN 1 ELSE 0)
                 + (IF serviceAccount THEN 1 ELSE 0)
        name == IF group THEN Deref(t.Group)
                ELSE IF user THEN Deref(t.User) ELSE ""
        isGroup == group
    IN IF count # 1
       THEN [name |-> "", isGroup |-> FALSE, err |-> "exactly one target"]
       ELSE [name |-> name, isGroup |-> isGroup, err |-> ""]

\* handleDeletion
PolicyAttachmentHandleDeletion(p) ==
    LET removeFinalizer(q) ==
            {IF w.err # "" THEN Return(w, 0, TRUE) ELSE Return(w, 0, FALSE)
             : w \in Update([q EXCEPT !.o.fin = FALSE])}
    IN IF p.o.fin
       THEN LET c == NewClient(p, p.o.spec.Connection)
                t == resolveTarget(p.o.spec.Target)
            IN IF c.err = ""
               THEN IF t.err = "" /\ t.name # ""
                    THEN UNION {IF m.err # "" THEN {Return(m, Minute, FALSE)}
                                ELSE removeFinalizer(m)
                                : m \in Mutate(c, "SetPolicy",
                                               <<"", t.name, Str(t.isGroup)>>,
                                               PolicySet(c.rm, "", t.isGroup))}
                    ELSE removeFinalizer(c)
               ELSE {Return(c, Minute, FALSE)}
       ELSE {Return(p, 0, FALSE)}

\* reconcileAttachment
reconcileAttachment(p) ==
    LET spec == p.o.spec
        t == resolveTarget(spec.Target)
        attach(q) ==
            IF q.err # ""
            THEN {ReturnInner(q, Minute, "user not found or not ready")}
            ELSE {IF m.err # "" THEN ReturnInner(m, Minute, "failed to set policy")
                  ELSE ReturnInner([m EXCEPT !.o.status.Target = t.name], Hour, "")
                  : m \in Mutate(q, "SetPolicy",
                                 <<spec.PolicyName, t.name, Str(t.isGroup)>>,
                                 PolicySet(q.rm, spec.PolicyName, t.isGroup))}
    IN IF t.err # "" THEN {ReturnInner(p, 0, "invalid target")}
       ELSE IF t.isGroup THEN {ReturnInner(p, 0, "group targets not implemented")}
       ELSE UNION {attach(q)
                   : q \in Lookup(p, "GetUserInfo", <<t.name>>,
                                  t.name = "u1" /\ p.rm.user.exists, TRUE)}

\* Reconcile, "Add finalizer": the pass goes on when the write succeeded.
PolicyAttachmentAddFinalizer(p) ==
    IF p.o.fin THEN {p}
    ELSE {IF w.err # "" THEN Return(w, 0, TRUE) ELSE w
          : w \in Update([p EXCEPT !.o.fin = TRUE])}

\* Reconcile
PolicyAttachmentReconcile(p0) ==
    LET deletion(p) == IF p.o.deleting THEN PolicyAttachmentHandleDeletion(p) ELSE {p}
        progressing(p) ==
            {IF w.err = "conflict" THEN Return(w, Second, FALSE)
             ELSE IF w.err # "" THEN Return(w, 0, TRUE) ELSE w
             : w \in StatusUpdate([p EXCEPT !.o.status =
                         progressingStatus(p.o, "Reconciling policy attachment", p.t)])}
        client(p) ==
            LET c == NewClient(p, p.o.spec.Connection)
            IN IF c.err # ""
               THEN {Return(w, Minute, FALSE)
                     : w \in StatusUpdate([c EXCEPT !.o.status =
                                 errorStatus(@, "ClientError",
                                             "Failed to create MinIO client", c.t)])}
               ELSE {c}
        reconcile(p) ==
            UNION {IF q.err # ""
                   THEN {Return(w, q.result.RequeueAfter, TRUE)
                         : w \in StatusUpdate([q EXCEPT !.o.status =
                                     [errorStatus(@, "ReconcileError",
                                         "Failed to reconcile policy attachment", q.t)
                                         EXCEPT !.LastSyncTime = q.t]])}
                   ELSE {q}
                   : q \in reconcileAttachment(p)}
        ready(p) ==
            {IF w.err = "conflict" THEN Return(w, Second, FALSE)
             ELSE IF w.err # "" THEN Return(w, 0, TRUE)
             ELSE Return(w, p.result.RequeueAfter, FALSE)
             : w \in StatusUpdate([p EXCEPT !.o.status =
                         [readyStatus(@, "Policy attachment", p.t)
                             EXCEPT !.PolicyName = p.o.spec.PolicyName,
                                    !.AttachedAt = IF @ = 0 THEN p.t ELSE @]])}
    IN Then(Then(Then(Then(Then(Then(Get(p0),
            deletion), PolicyAttachmentAddFinalizer), progressing), client), reconcile), ready)

(***************************************************************************)
(* The Alias controller.                                                    *)
(***************************************************************************)
\* AliasHandleDeletion that reports in the status before it lets go: the
\* teardown pass would write the status of a resource being deleted.
AliasHandleDeletionWithStatus(p) ==
    IF p.o.fin
    THEN UNION {{Return(w, 0, w.err # "") : w \in Update([s EXCEPT !.o.fin = FALSE])}
                : s \in StatusUpdate([p EXCEPT !.o.status.Ready = FALSE])}
    ELSE {Return(p, 0, FALSE)}

\* handleDeletion: nothing to clean up on the server.
AliasHandleDeletion(p) ==
    IF p.o.fin
    THEN {Return(w, 0, w.err # "") : w \in Update([p EXCEPT !.o.fin = FALSE])}
    ELSE {Return(p, 0, FALSE)}

\* reconcileAlias
reconcileAlias(p) ==
    LET spec == p.o.spec
        checked == [p EXCEPT !.o.status.LastHealthCheck = p.t]
        serverInfo(q) ==
            {IF i.err # "" THEN i
             ELSE [i EXCEPT !.o.status.Version = i.val,
                            !.o.status.Region =
                                IF spec.Region # Nil THEN Deref(spec.Region) ELSE @]
             : i \in Query(q, "ServerInfo", <<>>, q.rm.version)}
        interval ==
            IF spec.HealthCheck # Nil /\ Deref(spec.HealthCheck).Enabled
               /\ Deref(spec.HealthCheck).IntervalSeconds # Nil
            THEN Deref(Deref(spec.HealthCheck).IntervalSeconds) * Second
            ELSE Minute * 5
        healthCheck ==
            {IF h.err # ""
             THEN ReturnInner([h EXCEPT !.o.status.Healthy = FALSE], Minute, "")
             ELSE [h EXCEPT !.o.status.Healthy = TRUE,
                            !.o.status.ConnectedAt = IF @ = 0 THEN h.t ELSE @]
             : h \in Query(checked, "ListBuckets", <<>>, TRUE)}
    IN {IF q.ret THEN q ELSE ReturnInner(q, interval, "")
        : q \in ThenInner(healthCheck, serverInfo)}

\* Reconcile, "Add finalizer if not present": the pass returns the result of
\* the write.
AliasAddFinalizer(p) ==
    IF p.o.fin THEN {p}
    ELSE {Return(w, 0, w.err # "") : w \in Update([p EXCEPT !.o.fin = TRUE])}

\* Reconcile
AliasReconcile(p0) ==
    LET deletion(p) == IF p.o.deleting THEN AliasHandleDeletion(p) ELSE {p}
        progressing(p) ==
            {IF w.err # "" THEN Return(w, 0, TRUE) ELSE w
             : w \in StatusUpdate([p EXCEPT !.o.status =
                         progressingStatus(p.o, "Reconciling alias", p.t)])}
        conn(p) ==
            [MinIOConnection(Nil, Some(p.o.spec.URL), Nil, Some(p.o.spec.SecretRef))
                EXCEPT !.TLS = p.o.spec.TLS]
        client(p) ==
            LET c == NewClient(p, conn(p))
            IN IF c.err # ""
               THEN {Return(w, Minute, FALSE)
                     : w \in StatusUpdate([c EXCEPT !.o.status =
                                 [errorStatus(@, "ClientError",
                                              "Failed to create MinIO client", c.t)
                                     EXCEPT !.Healthy = FALSE]])}
               ELSE {c}
        reconcile(p) ==
            UNION {IF q.err # ""
                   THEN {Return(w, q.result.RequeueAfter, TRUE)
                         : w \in StatusUpdate([q EXCEPT !.o.status =
                                     [errorStatus(@, "ReconcileError",
                                                  "Failed to reconcile alias", q.t)
                                         EXCEPT !.Healthy = FALSE,
                                                !.LastSyncTime = q.t]])}
                   ELSE {q}
                   : q \in reconcileAlias(p)}
        ready(p) ==
            {IF w.err # "" THEN Return(w, 0, TRUE)
             ELSE Return(w, p.result.RequeueAfter, FALSE)
             : w \in StatusUpdate([p EXCEPT !.o.status =
                         [readyStatus(@, "Alias", p.t)
                             EXCEPT !.URL = p.o.spec.URL]])}
    IN Then(Then(Then(Then(Then(Then(Get(p0),
            deletion), AliasAddFinalizer), progressing), client), reconcile), ready)

(***************************************************************************)
(* The Endpoint controller.                                                    *)
(***************************************************************************)
\* handleDeletion: nothing to clean up on the server.
EndpointHandleDeletion(p) ==
    IF p.o.fin
    THEN {Return(w, 0, w.err # "") : w \in Update([p EXCEPT !.o.fin = FALSE])}
    ELSE {Return(p, 0, FALSE)}

\* reconcileEndpoint
reconcileEndpoint(p) ==
    LET spec == p.o.spec
        checked == [p EXCEPT !.o.status.LastHealthCheck = p.t]
        serverInfo(q) ==
            {IF i.err # "" THEN i
             ELSE [i EXCEPT !.o.status.Version = i.val,
                            !.o.status.Region =
                                IF spec.Region # Nil THEN Deref(spec.Region) ELSE @]
             : i \in Query(q, "ServerInfo", <<>>, q.rm.version)}
        interval ==
            IF spec.HealthCheck # Nil /\ Deref(spec.HealthCheck).Enabled
               /\ Deref(spec.HealthCheck).IntervalSeconds # Nil
            THEN Deref(Deref(spec.HealthCheck).IntervalSeconds) * Second
            ELSE Minute * 5
        healthCheck ==
            {IF h.err # ""
             THEN ReturnInner([h EXCEPT !.o.status.Healthy = FALSE], Minute, "")
             ELSE [h EXCEPT !.o.status.Healthy = TRUE,
                            !.o.status.ConnectedAt = IF @ = 0 THEN h.t ELSE @]
             : h \in Query(checked, "ListBuckets", <<>>, TRUE)}
    IN {IF q.ret THEN q ELSE ReturnInner(q, interval, "")
        : q \in ThenInner(healthCheck, serverInfo)}

\* Reconcile, "Add finalizer if not present": the pass returns the result of
\* the write.
EndpointAddFinalizer(p) ==
    IF p.o.fin THEN {p}
    ELSE {Return(w, 0, w.err # "") : w \in Update([p EXCEPT !.o.fin = TRUE])}

\* Reconcile
EndpointReconcile(p0) ==
    LET deletion(p) == IF p.o.deleting THEN EndpointHandleDeletion(p) ELSE {p}
        progressing(p) ==
            {IF w.err # "" THEN Return(w, 0, TRUE) ELSE w
             : w \in StatusUpdate([p EXCEPT !.o.status =
                         progressingStatus(p.o, "Reconciling endpoint", p.t)])}
        conn(p) ==
            [MinIOConnection(Nil, Some(p.o.spec.URL), Nil, Some(p.o.spec.SecretRef))
                EXCEPT !.TLS = p.o.spec.TLS]
        client(p) ==
            LET c == NewClient(p, conn(p))
            IN IF c.err # ""
               THEN {Return(w, Minute, FALSE)
                     : w \in StatusUpdate([c EXCEPT !.o.status =
                                 [errorStatus(@, "ClientError",
                                              "Failed to create MinIO client", c.t)
                                     EXCEPT !.Healthy = FALSE]])}
               ELSE {c}
        reconcile(p) ==
            UNION {IF q.err # ""
                   THEN {Return(w, q.result.RequeueAfter, TRUE)
                         : w \in StatusUpdate([q EXCEPT !.o.status =
                                     [errorStatus(@, "ReconcileError",
                                                  "Failed to reconcile endpoint", q.t)
                                         EXCEPT !.Healthy = FALSE,
                                                !.LastSyncTime = q.t]])}
                   ELSE {q}
                   : q \in reconcileEndpoint(p)}
        ready(p) ==
            {IF w.err # "" THEN Return(w, 0, TRUE)
             ELSE Return(w, p.result.RequeueAfter, FALSE)
             : w \in StatusUpdate([p EXCEPT !.o.status =
                         [readyStatus(@, "Endpoint", p.t)
                             EXCEPT !.URL = p.o.spec.URL]])}
    IN Then(Then(Then(Then(Then(Then(Get(p0),
            deletion), EndpointAddFinalizer), progressing), client), reconcile), ready)

(***************************************************************************)
(* The resources, the store objects and the server the model starts from.  *)
(***************************************************************************)
SecretRefS1 ==
    [Name |-> "s1", Namespace |-> Nil, AccessKeyIDKey |-> "", SecretAccessKeyKey |-> ""]

ConnAlias == MinIOConnection(Some([Name |-> "a1", Namespace |-> Nil]), Nil, Nil, Nil)
ConnURL == MinIOConnection(Nil, Some("minio:9000"), Nil, Some(SecretRefS1))
ConnEndpoint == MinIOConnection(Nil, Nil, Some([Name |-> "e1", Namespace |-> Nil]), Nil)
ConnNone == MinIOConnection(Nil, Nil, Nil, Nil)

\* The connection blocks of the reconciled resources.
Connections == {ConnAlias, ConnEndpoint, ConnNone}

\* The Alias a1 and the Endpoint e1 of the namespace, and the secret s1.
TargetSpec ==
    [URL |-> "minio:9000", SecretRef |-> SecretRefS1, TLS |-> Nil,
     Region |-> Nil, PathStyle |-> FALSE]

Store(ready, complete) ==
    [aliases |-> (<<Namespace, "a1">> :> [Spec |-> TargetSpec, Status |-> [Ready |-> ready]]),
     endpoints |-> (<<Namespace, "e1">> :> [Spec |-> TargetSpec, Status |-> [Ready |-> ready]]),
     secrets |-> (<<Namespace, "s1">> :>
                    IF complete
                    THEN [accessKeyID |-> "k", secretAccessKey |-> "s", password |-> "pw2"]
                    ELSE [accessKeyID |-> "k"])]

\* The store objects a connection goes through are in order (the Alias and
\* the Endpoint ready, the secret complete) or they are not.
Stores == {Store(TRUE, TRUE), Store(FALSE, FALSE)}

BucketSpec(conn, versioning, tags, region) ==
    [Connection |-> conn, BucketName |-> "b1", Region |-> region,
     ObjectLocking |-> FALSE, Versioning |-> versioning, Tags |-> tags]

UserSpec(conn, password, secretRef, status, policies) ==
    [Connection |-> conn, Username |-> "u1", SecretRef |-> secretRef,
     Password |-> password, Status |-> status, Groups |-> <<>>,
     Policies |-> policies]

PolicySpec(conn, document) ==
    [Connection |-> conn, PolicyName |-> "p1", Policy |-> document]

PolicyAttachmentSpec(conn, user, group, serviceAccount) ==
    [Connection |-> conn, PolicyName |-> "p1",
     Target |-> [User |-> user, Group |-> group, ServiceAccount |-> serviceAccount]]

\* An AliasSpec or an EndpointSpec.
HealthSpec(healthCheck) ==
    [TargetSpec EXCEPT !.Region = Some("eu")] @@ [HealthCheck |-> healthCheck]

HealthCheckEvery(seconds) == Some([Enabled |-> TRUE, IntervalSeconds |-> Some(seconds)])

\* The spec a resource is created with, and the specs an edit can give it.
FirstSpec(k, conn) ==
    CASE k = "Bucket" -> BucketSpec(conn, TRUE, "t=1", Some("eu"))
      [] k = "User" -> UserSpec(conn, Some("pw"), Nil, "disabled", <<"p1">>)
      [] k = "Policy" -> PolicySpec(conn, "d1")
      [] k = "PolicyAttachment" -> PolicyAttachmentSpec(conn, Some("u1"), Nil, Nil)
      [] k \in {"Alias", "Endpoint"} -> HealthSpec(Nil)

Specs(k, conn) ==
    CASE k = "Bucket" ->
           {BucketSpec(conn, TRUE, "t=1", Some("eu")), BucketSpec(conn, FALSE, "", Nil)}
      [] k = "User" ->
           {UserSpec(conn, Some("pw"), Nil, "disabled", <<"p1">>),
            UserSpec(conn, Nil, Some(SecretRefS1), "enabled", <<>>)}
      [] k = "Policy" -> {PolicySpec(conn, "d1"), PolicySpec(conn, "d2")}
      [] k = "PolicyAttachment" ->
           {PolicyAttachmentSpec(conn, Some("u1"), Nil, Nil),
            PolicyAttachmentSpec(conn, Nil, Some("g1"), Nil),
            PolicyAttachmentSpec(conn, Nil, Nil, Some("sa1"))}
      [] k \in {"Alias", "Endpoint"} ->
           {HealthSpec(Nil), HealthSpec(HealthCheckEvery(30))}

\* The connection block of a spec; an Alias and an Endpoint have none.
ConnectionOf(k, spec) ==
    IF k \in {"Alias", "Endpoint"} THEN ConnNone ELSE spec.Connection

NoConditions == <<>>

CommonStatus ==
    [Conditions |-> NoConditions, Ready |-> FALSE, ObservedGeneration |-> 0,
     LastSyncTime |-> 0]

EmptyStatus(k) ==
    CommonStatus @@
    CASE k = "Bucket" -> [BucketName |-> "", Region |-> "", CreationDate |-> 0]
      [] k = "User" -> [Username |-> "", Status |-> "", Groups |-> <<>>,
                        Policies |-> <<>>, CreationDate |-> 0]
      [] k = "Policy" -> [PolicyName |-> "", PolicyHash |-> "", CreationDate |-> 0]
      [] k = "PolicyAttachment" -> [PolicyName |-> "", Target |-> "", AttachedAt |-> 0]
      [] k \in {"Alias", "Endpoint"} ->
           [URL |-> "", Healthy |-> FALSE, LastHealthCheck |-> 0, Version |-> "",
            Region |-> "", ConnectedAt |-> 0]

\* The server before the first pass.  The user a PolicyAttachment targets is
\* managed elsewhere and exists.
RemoteInit(k) ==
    [bucket |-> BucketAbsent,
     user |-> IF k = "PolicyAttachment"
              THEN [UserAbsent EXCEPT !.exists = TRUE, !.enabled = TRUE,
                                      !.password = "pw"]
              ELSE UserAbsent,
     policy |-> "", groupPolicy |-> "", version |-> "v1"]

\* What happens to the server behind the controller's back.
Drifts(k, rm) ==
    CASE k = "Bucket" ->
           IF rm.bucket.exists /\ ~rm.bucket.objects
           THEN {[rm EXCEPT !.bucket.objects = TRUE]}
           ELSE {}
      [] k \in {"User", "PolicyAttachment"} ->
           IF rm.user.exists THEN {[rm EXCEPT !.user = UserAbsent]} ELSE {}
      [] k = "Policy" ->
           IF rm.policy \notin {"", "dx"} THEN {[rm EXCEPT !.policy = "dx"]} ELSE {}
      [] k \in {"Alias", "Endpoint"} -> {}

NoResult == [RequeueAfter |-> 0, err |-> FALSE]

NoPass == [ran |-> FALSE, tr |-> <<>>, res |-> NoResult]

\* No resolver call on its own: the resolver runs inside the passes.
NoResolution == [conn |-> ConnNone, calls |-> <<>>]

(***************************************************************************)
(* The state machine.                                                      *)
(***************************************************************************)
Init ==
    /\ kind \in Kinds
    /\ \E conn \in Connections :
          obj = [exists |-> TRUE, deleting |-> FALSE, fin |-> FALSE,
                 otherFin |-> FALSE, gen |-> 1, spec |-> FirstSpec(kind, conn),
                 status |-> EmptyStatus(kind)]
    /\ k8s = Store(TRUE, TRUE)
    /\ remote = RemoteInit(kind)
    /\ now = 1
    /\ pass = NoPass
    /\ resolution = NoResolution

\* The pass state a reconcile pass starts in.
Start ==
    [o |-> Gone, st |-> obj, k8s |-> k8s, rm |-> remote, t |-> now, tr |-> <<>>,
     err |-> "", val |-> FALSE, cfg |-> Nil,
     ret |-> FALSE, result |-> Result(0), done |-> FALSE, res |-> NoResult,
     left |-> 0, dead |-> FALSE]

\* The state a pass that ended in p leaves.
Finish(p) ==
    /\ p.done
    /\ obj' = p.st
    /\ remote' = p.rm
    /\ pass' = [ran |-> TRUE, tr |-> p.tr, res |-> p.res]
    /\ UNCHANGED <<kind, k8s, now, resolution>>

ReconcileBucket ==
    /\ kind = "Bucket"
    /\ \E p \in BucketReconcile(Start) : Finish(p)

ReconcileUser ==
    /\ kind = "User"
    /\ \E p \in UserReconcile(Start) : Finish(p)

ReconcilePolicy ==
    /\ kind = "Policy"
    /\ \E p \in PolicyReconcile(Start) : Finish(p)

ReconcilePolicyAttachment ==
    /\ kind = "PolicyAttachment"
    /\ \E p \in PolicyAttachmentReconcile(Start) : Finish(p)

ReconcileAlias ==
    /\ kind = "Alias"
    /\ \E p \in AliasReconcile(Start) : Finish(p)

ReconcileEndpoint ==
    /\ kind = "Endpoint"
    /\ \E p \in EndpointReconcile(Start) : Finish(p)

\* The user edits the spec: the store raises the generation.
SpecChange ==
    /\ obj.exists /\ ~obj.deleting /\ obj.gen < MaxGen
    /\ \E spec \in Specs(kind, ConnectionOf(kind, obj.spec)) \ {obj.spec} :
          obj' = [obj EXCEPT !.spec = spec, !.gen = @ + 1]
    /\ pass' = NoPass
    /\ UNCHANGED <<kind, k8s, remote, now, resolution>>

\* The user deletes the resource: the store sets the deletion timestamp.
DeleteRequested ==
    /\ obj.exists /\ ~obj.deleting
    /\ obj' = Settle([obj EXCEPT !.deleting = TRUE])
    /\ pass' = NoPass
    /\ UNCHANGED <<kind, k8s, remote, now, resolution>>

\* The Alias, Endpoint or Secret the connection goes through changes.
DependencyChange ==
    /\ obj.exists
    /\ \E store \in Stores \ {k8s} : k8s' = store
    /\ pass' = NoPass
    /\ UNCHANGED <<kind, obj, remote, now, resolution>>

\* The server changes behind the controller's back.
RemoteDrift ==
    /\ \E rm \in Drifts(kind, remote) : remote' = rm
    /\ pass' = NoPass
    /\ UNCHANGED <<kind, obj, k8s, now, resolution>>

Next ==
    \/ ReconcileBucket
    \/ ReconcileUser
    \/ ReconcilePolicy
    \/ ReconcilePolicyAttachment
    \/ ReconcileAlias
    \/ ReconcileEndpoint
    \/ SpecChange
    \/ DeleteRequested
    \/ DependencyChange
    \/ RemoteDrift

Spec == Init /\ [][Next]_vars

(***************************************************************************)
(* Scheduling.  The manager calls Reconcile again after every returned     *)
(* error and every RequeueAfter, and the store and the server answer in    *)
(* the end: a pass in which no store call and no remote call fails keeps   *)
(* being possible, so one is eventually made.                              *)
(***************************************************************************)
Passes ==
    CASE kind = "Bucket" -> BucketReconcile(Start)
      [] kind = "User" -> UserReconcile(Start)
      [] kind = "Policy" -> PolicyReconcile(Start)
      [] kind = "PolicyAttachment" -> PolicyAttachmentReconcile(Start)
      [] kind = "Alias" -> AliasReconcile(Start)
      [] kind = "Endpoint" -> EndpointReconcile(Start)

\* No call of the pass met an error or a conflict.
Faultless(tr) == \A i \in DOMAIN tr : tr[i].out \notin {"error", "conflict"}

FaultlessPass == \E p \in Passes : Faultless(p.tr) /\ Finish(p)

LiveSpec == Init /\ [][Next]_vars /\ WF_vars(FaultlessPass)

\* Every call of the pass to the store and to the server succeeded and the
\* connection was resolved.
CallsSucceeded(tr) ==
    /\ \A i \in DOMAIN tr :
          tr[i].op # "reconcile" => tr[i].out \notin {"error", "conflict"}
    /\ \A i \in DOMAIN tr : tr[i].op = "NewClient" => tr[i].out = "ok"

\* A requeued pass in which the store and the server answer every call.
AnsweredPass == \E p \in Passes : CallsSucceeded(p.tr) /\ Finish(p)

ConvergeSpec == Init /\ [][Next]_vars /\ WF_vars(AnsweredPass)

(***************************************************************************)
(* Restarts.  The process that runs the controller can stop in the middle  *)
(* of a pass (a crash, a cancelled context): the pass is abandoned after   *)
(* one of its calls, the store and the server keep what the calls before   *)
(* have written, and the manager of the next process starts the pass       *)
(* again.  The stop of the process is the only fault: the spec and the     *)
(* dependencies are left alone, the connection of the resource can be      *)
(* resolved, and the store and the server answer every call.               *)
(***************************************************************************)
RestartInit ==
    /\ Init
    /\ buildClientConfig(k8s, ConnectionOf(kind, obj.spec), Namespace).err = ""
          \/ kind \in {"Alias", "Endpoint"}

\* The starts of a pass: one that runs to its return (left = 0) and one
\* that is abandoned after its n-th call.
Starts == {[Start EXCEPT !.left = n] : n \in 0..MaxSteps}

RestartBucket ==
    /\ kind = "Bucket"
    /\ \E s \in Starts :
          \E p \in BucketReconcile(s) : CallsSucceeded(p.tr) /\ Finish(p)

RestartUser ==
    /\ kind = "User"
    /\ \E s \in Starts :
          \E p \in UserReconcile(s) : CallsSucceeded(p.tr) /\ Finish(p)

RestartPolicy ==
    /\ kind = "Policy"
    /\ \E s \in Starts :
          \E p \in PolicyReconcile(s) : CallsSucceeded(p.tr) /\ Finish(p)

RestartPolicyAttachment ==
    /\ kind = "PolicyAttachment"
    /\ \E s \in Starts :
          \E p \in PolicyAttachmentReconcile(s) : CallsSucceeded(p.tr) /\ Finish(p)

RestartAlias ==
    /\ kind = "Alias"
    /\ \E s \in Starts :
          \E p \in AliasReconcile(s) : CallsSucceeded(p.tr) /\ Finish(p)

RestartEndpoint ==
    /\ kind = "Endpoint"
    /\ \E s \in Starts :
          \E p \in EndpointReconcile(s) : CallsSucceeded(p.tr) /\ Finish(p)

RestartNext ==
    \/ RestartBucket
    \/ RestartUser
    \/ RestartPolicy
    \/ RestartPolicyAttachment
    \/ RestartAlias
    \/ RestartEndpoint

RestartSpec == RestartInit /\ [][RestartNext]_vars /\ WF_vars(AnsweredPass)

(***************************************************************************)
(* The resolver on its own.  A connection block is resolved, up to         *)
(* MaxCalls times, against a store whose Alias a1 and Endpoint e1 are      *)
(* ready, not ready or deleted, and whose secrets (s1 of the Alias and of  *)
(* the Endpoint, s2 of the connection block itself) are complete, hold     *)
(* their entries under other names, lack an entry, or do not exist.        *)
(***************************************************************************)
SecretRefOf(name, override) ==
    [Name |-> name, Namespace |-> Nil,
     AccessKeyIDKey |-> IF override THEN "ak" ELSE "",
     SecretAccessKeyKey |-> IF override THEN "sk" ELSE ""]

\* The connection blocks a resource can carry: every combination of the
\* three sources, with and without a secret reference and a TLS block.
ResolverConnections ==
    {[MinIOConnection(aliasRef, url, endpointRef, secretRef) EXCEPT !.TLS = tls] :
        aliasRef \in {Nil, Some([Name |-> "a1", Namespace |-> Nil])},
        url \in {Nil, Some("direct:9000")},
        endpointRef \in {Nil, Some([Name |-> "e1", Namespace |-> Nil])},
        secretRef \in {Nil, Some(SecretRefOf("s2", FALSE)), Some(SecretRefOf("s2", TRUE))},
        tls \in {Nil, Some([Insecure |-> TRUE])}}

TargetStates == {"ready", "notReady", "deleted"}

SecretStates == {"complete", "otherNames", "noAccessKey", "noSecretKey", "deleted"}

\* The Data of secret `name` in state `secret`.
SecretData(name, secret) ==
    CASE secret = "complete" ->
           [accessKeyID |-> name \o "-key", secretAccessKey |-> name \o "-secret"]
      [] secret = "otherNames" ->
           [ak |-> name \o "-key", sk |-> name \o "-secret"]
      [] secret = "noAccessKey" -> [secretAccessKey |-> name \o "-secret"]
      [] secret = "noSecretKey" -> [accessKeyID |-> name \o "-key"]

ResolverStore(target, override, secret) ==
    LET spec == [URL |-> "minio:9000", SecretRef |-> SecretRefOf("s1", override),
                 TLS |-> Some([Insecure |-> FALSE]), Region |-> Some("eu"),
                 PathStyle |-> TRUE]
        object == [Spec |-> spec, Status |-> [Ready |-> target = "ready"]]
    IN [aliases |-> [key \in IF target = "deleted" THEN {}
                             ELSE {<<Namespace, "a1">>} |-> object],
        endpoints |-> [key \in IF target = "deleted" THEN {}
                               ELSE {<<Namespace, "e1">>} |-> object],
        secrets |-> [key \in IF secret = "deleted" THEN {}
                             ELSE {<<Namespace, "s1">>, <<Namespace, "s2">>}
                     |-> SecretData(key[2], secret)]]

ResolverInit ==
    /\ kind = "Bucket"
    /\ obj = Gone
    /\ remote = RemoteInit("Bucket")
    /\ now = 1
    /\ pass = NoPass
    /\ \E target \in TargetStates, override \in BOOLEAN, secret \in SecretStates :
          k8s = ResolverStore(target, override, secret)
    /\ \E conn \in ResolverConnections : resolution = [conn |-> conn, calls |-> <<>>]

\* A call of buildClientConfig; the call is kept with the store it read.
Resolve ==
    /\ Len(resolution.calls) < MaxCalls
    /\ resolution' =
          [resolution EXCEPT !.calls =
              Append(@, [store |-> k8s,
                         result |-> buildClientConfig(k8s, resolution.conn, Namespace)])]
    /\ UNCHANGED <<kind, obj, k8s, remote, now, pass>>

\* The Alias and the Endpoint become ready or not ready, or are deleted.
TargetChange ==
    /\ DOMAIN k8s.aliases # {}
    /\ \E store \in
          {[k8s EXCEPT !.aliases = [key \in DOMAIN @ |-> [@[key] EXCEPT
                                       !.Status.Ready = ~@]],
                       !.endpoints = [key \in DOMAIN @ |-> [@[key] EXCEPT
                                         !.Status.Ready = ~@]]],
           [k8s EXCEPT !.aliases = [key \in {} |-> 0],
                       !.endpoints = [key \in {} |-> 0]]} :
          k8s' = store
    /\ UNCHANGED <<kind, obj, remote, now, pass, resolution>>

ResolverNext ==
    \/ Resolve
    \/ TargetChange

ResolverSpec == ResolverInit /\ [][ResolverNext]_vars

(***************************************************************************)
(* Two resources of one kind that name the same remote entity: two Buckets *)
(* with the same bucketName, or two Users with the same username.  obj is  *)
(* the resource the controller is handed, k8s.peer the other one; the work *)
(* queue hands the controller one resource at a time, in any order.        *)
(***************************************************************************)
SharedKinds == {"Bucket", "User"}

SharedInit ==
    /\ kind \in SharedKinds
    /\ obj = [exists |-> TRUE, deleting |-> FALSE, fin |-> FALSE,
              otherFin |-> FALSE, gen |-> 1, spec |-> FirstSpec(kind, ConnAlias),
              status |-> EmptyStatus(kind)]
    /\ k8s = [aliases |-> Store(TRUE, TRUE).aliases,
              endpoints |-> Store(TRUE, TRUE).endpoints,
              secrets |-> Store(TRUE, TRUE).secrets,
              peer |-> obj]
    /\ remote = RemoteInit(kind)
    /\ now = 1
    /\ pass = NoPass
    /\ resolution = NoResolution

\* The work queue hands the controller the other resource.
OtherResource ==
    /\ obj' = k8s.peer
    /\ k8s' = [k8s EXCEPT !.peer = obj]
    /\ pass' = NoPass
    /\ UNCHANGED <<kind, remote, now, resolution>>

SharedNext ==
    \/ ReconcileBucket
    \/ ReconcileUser
    \/ DeleteRequested
    \/ OtherResource

SharedSpec == SharedInit /\ [][SharedNext]_vars

(***************************************************************************)
(* The resolver across namespaces.  The caller lives in Namespace; an      *)
(* Alias a1, an Endpoint e1 and a secret s1 exist in Namespace and in      *)
(* OtherNamespace, each holding values that name its namespace.  The       *)
(* reference of the connection block and the SecretRef of the Alias and    *)
(* the Endpoint name a namespace or leave it out.                          *)
(***************************************************************************)
OtherNamespace == "ns2"

Namespaces == {Namespace, OtherNamespace}

NamespaceChoices == {Nil, Some(Namespace), Some(OtherNamespace)}

SecretRefIn(namespace) == [SecretRefOf("s1", FALSE) EXCEPT !.Namespace = namespace]

NamespaceConnections ==
    UNION {{MinIOConnection(Some([Name |-> "a1", Namespace |-> namespace]), Nil, Nil, Nil),
            MinIOConnection(Nil, Nil, Some([Name |-> "e1", Namespace |-> namespace]), Nil),
            MinIOConnection(Nil, Some("direct:9000"), Nil, Some(SecretRefIn(namespace)))}
           : namespace \in NamespaceChoices}

NamespaceStore(secretNamespace, present) ==
    LET object(namespace) ==
            [Spec |-> [URL |-> namespace \o "-minio:9000",
                       SecretRef |-> SecretRefIn(secretNamespace),
                       TLS |-> Nil, Region |-> Nil, PathStyle |-> FALSE],
             Status |-> [Ready |-> TRUE]]
    IN [aliases |-> [key \in {<<namespace, "a1">> : namespace \in Namespaces}
                     |-> object(key[1])],
        endpoints |-> [key \in {<<namespace, "e1">> : namespace \in Namespaces}
                       |-> object(key[1])],
        secrets |-> [key \in {<<namespace, "s1">> : namespace \in present}
                     |-> [accessKeyID |-> key[1] \o "-key",
                          secretAccessKey |-> key[1] \o "-secret"]]]

NamespaceInit ==
    /\ kind = "Bucket"
    /\ obj = Gone
    /\ remote = RemoteInit("Bucket")
    /\ now = 1
    /\ pass = NoPass
    /\ \E secretNamespace \in NamespaceChoices, present \in SUBSET Namespaces :
          k8s = NamespaceStore(secretNamespace, present)
    /\ \E conn \in NamespaceConnections : resolution = [conn |-> conn, calls |-> <<>>]

NamespaceSpec == NamespaceInit /\ [][ResolverNext]_vars

(***************************************************************************)
(* The condition list on its own: SetCondition called again and again on   *)
(* the list of a fresh status, each call at a later time than the one      *)
(* before (metav1.Now()).  pass holds the call that has just been made.    *)
(***************************************************************************)
ConditionTypes == {ConditionReady, ConditionProgressing, ConditionError}
ConditionStatuses == {"True", "False"}
Reasons == {"Ready", "ReconcileError"}
Messages == {"is ready", "failed"}

ConditionInit ==
    /\ kind = "Bucket"
    /\ obj = [exists |-> TRUE, deleting |-> FALSE, fin |-> FALSE,
              otherFin |-> FALSE, gen |-> 1, spec |-> FirstSpec(kind, ConnAlias),
              status |-> EmptyStatus(kind)]
    /\ k8s = Store(TRUE, TRUE)
    /\ remote = RemoteInit(kind)
    /\ now = 1
    /\ pass = NoPass
    /\ resolution = NoResolution

SetConditionCall ==
    /\ now <= MaxTime
    /\ \E conditionType \in ConditionTypes, status \in ConditionStatuses,
          reason \in Reasons, message \in Messages :
          /\ obj' = [obj EXCEPT !.status.Conditions =
                        SetCondition(@, conditionType, status, reason, message, now)]
          /\ pass' = [ran |-> TRUE,
                      tr |-> <<Ev("SetCondition", status,
                                  <<conditionType, reason, message>>)>>,
                      res |-> NoResult]
    /\ now' = now + 1
    /\ UNCHANGED <<kind, k8s, remote, resolution>>

ConditionNext == SetConditionCall

ConditionSpec == ConditionInit /\ [][ConditionNext]_vars

(***************************************************************************)
(* The vocabulary of the properties.  pass is the pass that has just ended *)
(* (pass.ran is false after a step of the environment), so in a step that  *)
(* is a pass, pass' is that pass, obj and remote are the store object and  *)
(* the server it started from, obj' and remote' what it left.              *)
(***************************************************************************)
RemoteOps ==
    {"BucketExists", "MakeBucket", "SetBucketVersioning", "SetBucketTagging",
     "ListObjects", "RemoveObject", "RemoveBucket", "GetUserInfo", "AddUser",
     "SetUser", "SetUserStatus", "SetPolicy", "RemoveUser", "InfoCannedPolicy",
     "AddCannedPolicy", "RemoveCannedPolicy", "ListBuckets", "ServerInfo"}

MutatingOps ==
    {"MakeBucket", "SetBucketVersioning", "SetBucketTagging", "RemoveObject",
     "RemoveBucket", "AddUser", "SetUser", "SetUserStatus", "SetPolicy",
     "RemoveUser", "AddCannedPolicy", "RemoveCannedPolicy"}

CreationOps == {"MakeBucket", "AddUser", "AddCannedPolicy"}

IsRemote(e) == e.op \in RemoteOps

IsMutating(e) == e.op \in MutatingOps

\* The call that deletes the remote object of a resource; the remote object
\* of a PolicyAttachment is the attachment, deleted by SetPolicy("").
IsDelete(e) ==
    \/ e.op \in {"RemoveBucket", "RemoveUser", "RemoveCannedPolicy"}
    \/ e.op = "SetPolicy" /\ e.arg[1] = ""

AddsFinalizer(e) == e.op = "Update" /\ e.arg = <<"finalizer">>

RemovesFinalizer(e) == e.op = "Update" /\ e.arg = <<"no finalizer">>

Has(tr, op, out) == \E i \in DOMAIN tr : tr[i].op = op /\ tr[i].out = out

Last(tr) == tr[Len(tr)]

ResolutionFailed(tr) == \E i \in DOMAIN tr : tr[i].op = "NewClient" /\ tr[i].out # "ok"

ConvergenceFailed(tr) == Has(tr, "reconcile", "error")

RemoteCallFailed(tr) == \E i \in DOMAIN tr : IsRemote(tr[i]) /\ tr[i].out = "error"

StatusWriteFailed(tr) == \E i \in DOMAIN tr : tr[i].op = "StatusUpdate" /\ tr[i].out # "ok"

DeleteSucceeded(tr) == \E i \in DOMAIN tr : IsDelete(tr[i]) /\ tr[i].out = "ok"

DeleteFailed(tr) == \E i \in DOMAIN tr : IsDelete(tr[i]) /\ tr[i].out # "ok"

Removals(tr) == {i \in DOMAIN tr : RemovesFinalizer(tr[i])}

\* The pass ended by writing the Ready status, and the write succeeded.
ReachedReady(ps) ==
    /\ ps.ran /\ ps.tr # <<>>
    /\ Last(ps.tr) = Ev("StatusUpdate", "ok", <<"true">>)

\* The pass resolved the connection, converged and wrote the Ready status,
\* and every call it made succeeded.
Succeeded(ps) ==
    /\ ReachedReady(ps)
    /\ Has(ps.tr, "NewClient", "ok") /\ Has(ps.tr, "reconcile", "ok")
    /\ \A i \in DOMAIN ps.tr : ps.tr[i].out \in {"ok", "Alias", "Secret", "Endpoint"}

ConditionStatus(conditions, t) ==
    IF GetCondition(conditions, t) = Nil THEN "" ELSE Deref(GetCondition(conditions, t)).Status

\* The pass was a pass on a stored resource that is not being deleted.
NonDeletionPass == pass.ran /\ obj.exists /\ ~obj.deleting

\* madmin's AddUser(name, password) is SetUser(name, password, AccountEnabled).
SameCall(a, b) ==
    \/ a.op = b.op /\ a.arg = b.arg
    \/ {a.op, b.op} = {"AddUser", "SetUser"} /\ a.arg[1] = b.arg[1] /\ a.arg[2] = b.arg[2]

(***************************************************************************)
(* C1.  Finalizer before mutation: in every pass of every kind, a mutating *)
(* remote call is issued only if the stored resource had the finalizer     *)
(* when the pass began or the pass has written it successfully before the  *)
(* call; and a pass whose finalizer-adding write fails issues no remote    *)
(* call at all.                                                            *)
(***************************************************************************)
C1_FinalizerBeforeMutation ==
    [][pass'.ran =>
          /\ \A i \in DOMAIN pass'.tr :
                IsMutating(pass'.tr[i]) =>
                   \/ obj.fin
                   \/ \E j \in 1..(i - 1) :
                         AddsFinalizer(pass'.tr[j]) /\ pass'.tr[j].out = "ok"
          /\ (\E j \in DOMAIN pass'.tr :
                 AddsFinalizer(pass'.tr[j]) /\ pass'.tr[j].out # "ok")
                => \A i \in DOMAIN pass'.tr : ~IsRemote(pass'.tr[i])]_vars

\* A pass that wrote the finalizer and went on to a mutating call, and the
\* store has the finalizer.
C1_Witness ==
    /\ pass.ran /\ obj.exists /\ obj.fin
    /\ \E j \in DOMAIN pass.tr : \E i \in DOMAIN pass.tr :
          /\ j < i
          /\ AddsFinalizer(pass.tr[j]) /\ pass.tr[j].out = "ok"
          /\ IsMutating(pass.tr[i]) /\ pass.tr[i].out = "ok"

(***************************************************************************)
(* C2.  Teardown of a Bucket, User, Policy or PolicyAttachment: the        *)
(* finalizer is removed only in a pass whose remote delete call succeeded  *)
(* or whose existence check reported the remote object absent; a pass in   *)
(* which the existence check or the delete call returned an error keeps    *)
(* the finalizer.                                                          *)
(***************************************************************************)
C2_FinalizerKeptUntilCleanup ==
    [][(/\ pass'.ran
        /\ kind \in {"Bucket", "User", "Policy", "PolicyAttachment"}
        /\ obj.exists /\ obj.deleting /\ obj.fin) =>
          /\ ~(obj'.exists /\ obj'.fin) =>
                \/ DeleteSucceeded(pass'.tr)
                \/ Has(pass'.tr, "BucketExists", "ok") /\ ~remote.bucket.exists
                \/ Has(pass'.tr, "GetUserInfo", "notfound")
          /\ RemoteCallFailed(pass'.tr) =>
                obj'.exists /\ obj'.fin /\ Removals(pass'.tr) = {}]_vars

(***************************************************************************)
(* C3.  As the specification states it: in a teardown pass a successful    *)
(* remote delete call is followed by the removal of the finalizer, the     *)
(* pass after it removes nothing and issues no further delete, and a       *)
(* failing delete call leaves the finalizer and returns a one-minute       *)
(* requeue.                                                                *)
(***************************************************************************)
C3_RemovedExactlyOnce ==
    [][/\ (pass'.ran /\ DeleteSucceeded(pass'.tr)) => ~(obj'.exists /\ obj'.fin)
       /\ (pass.ran /\ pass'.ran /\ DeleteSucceeded(pass.tr)) =>
             /\ \A i \in DOMAIN pass'.tr : ~IsDelete(pass'.tr[i])
             /\ Removals(pass'.tr) = {}
       /\ (pass'.ran /\ DeleteFailed(pass'.tr)) =>
             /\ obj'.exists /\ obj'.fin
             /\ pass'.res = [RequeueAfter |-> Minute, err |-> FALSE]]_vars

(***************************************************************************)
(* C3, amended.  After a successful remote delete call the pass issues     *)
(* exactly one finalizer-removing write, as its last call.  If that write  *)
(* succeeds the resource is erased and the pass returns no error and no    *)
(* requeue; if it fails the finalizer stays and the pass returns the       *)
(* error.  After a failing delete call the resource is left as it was and  *)
(* the pass returns a one-minute requeue and no error.  A pass on the      *)
(* erased resource reads the store and does nothing else.                  *)
(***************************************************************************)
C3_RemovedOnceWhenWritten ==
    [][pass'.ran =>
          /\ DeleteSucceeded(pass'.tr) =>
                /\ Cardinality(Removals(pass'.tr)) = 1
                /\ RemovesFinalizer(Last(pass'.tr))
                /\ Last(pass'.tr).out = "ok" =>
                      ~obj'.exists /\ pass'.res = [RequeueAfter |-> 0, err |-> FALSE]
                /\ Last(pass'.tr).out # "ok" =>
                      obj'.exists /\ obj'.fin /\ pass'.res = [RequeueAfter |-> 0, err |-> TRUE]
          /\ DeleteFailed(pass'.tr) =>
                /\ obj' = obj /\ Removals(pass'.tr) = {}
                /\ pass'.res = [RequeueAfter |-> Minute, err |-> FALSE]
          /\ ~obj.exists =>
                /\ pass'.tr = <<Ev("Get", "notfound", <<>>)>>
                /\ obj' = obj /\ remote' = remote]_vars

\* A teardown pass whose delete call succeeded and whose finalizer-removing
\* write erased the resource.
C3_Witness ==
    /\ pass.ran /\ ~obj.exists
    /\ DeleteSucceeded(pass.tr)
    /\ RemovesFinalizer(Last(pass.tr)) /\ Last(pass.tr).out = "ok"

(***************************************************************************)
(* C4.  After a pass in which connection resolution and convergence        *)
(* succeeded (and the Ready status was written), the stored status has     *)
(* ready true, Ready=True, Progressing=False and no Error=True, whatever   *)
(* the earlier passes were.                                                *)
(***************************************************************************)
C4_ErrorClearedOnSuccess ==
    Succeeded(pass) =>
       /\ obj.status.Ready
       /\ ConditionStatus(obj.status.Conditions, ConditionReady) = "True"
       /\ ConditionStatus(obj.status.Conditions, ConditionProgressing) = "False"
       /\ ConditionStatus(obj.status.Conditions, ConditionError) # "True"

(***************************************************************************)
(* C5.  A non-deletion pass in which connection resolution failed or a     *)
(* remote call returned an error (and whose status writes all succeeded)   *)
(* leaves Error=True and ready false, and does not leave Ready=True.       *)
(***************************************************************************)
C5_FailureEndsInError ==
    (/\ NonDeletionPass
     /\ ResolutionFailed(pass.tr) \/ RemoteCallFailed(pass.tr)
     /\ ~StatusWriteFailed(pass.tr)) =>
       /\ ConditionStatus(obj.status.Conditions, ConditionError) = "True"
       /\ ~obj.status.Ready
       /\ ~ReachedReady(pass)

(***************************************************************************)
(* C6.  As the specification states it: a pass that fails in resolution or *)
(* convergence does not change the stored observedGeneration.              *)
(***************************************************************************)
C6_ObservedGenerationOnlyOnSuccess ==
    [][(/\ pass'.ran /\ obj'.exists
        /\ ResolutionFailed(pass'.tr) \/ ConvergenceFailed(pass'.tr)) =>
          obj'.status.ObservedGeneration = obj.status.ObservedGeneration]_vars

(***************************************************************************)
(* C6, amended.  The stored observedGeneration is the generation of the    *)
(* resource at the last pass whose Progressing status write succeeded: a   *)
(* pass that writes a status leaves observedGeneration equal to the        *)
(* generation, whether or not it fails afterwards; a pass that writes no   *)
(* status and a step of the environment leave it as it was.                *)
(***************************************************************************)
C6_ObservedGenerationAtProgressing ==
    [][obj'.exists =>
          obj'.status.ObservedGeneration =
             IF pass'.ran /\ Has(pass'.tr, "StatusUpdate", "ok")
             THEN obj.gen ELSE obj.status.ObservedGeneration]_vars

\* A pass of generation 2 that failed after the Progressing write: the store
\* shows observedGeneration 2 and ready false.
C6_Witness ==
    /\ NonDeletionPass /\ obj.gen = 2
    /\ ResolutionFailed(pass.tr) \/ ConvergenceFailed(pass.tr)
    /\ obj.status.ObservedGeneration = 2 /\ ~obj.status.Ready

(***************************************************************************)
(* C7.  Idempotence: of two consecutive passes that both reached Ready,    *)
(* with no step of the environment between them, the second issues no      *)
(* creation call and no mutating call the first did not issue with the     *)
(* same arguments, and leaves observedGeneration and the server unchanged. *)
(***************************************************************************)
C7_Idempotent ==
    [][(ReachedReady(pass) /\ ReachedReady(pass')) =>
          /\ \A i \in DOMAIN pass'.tr : pass'.tr[i].op \notin CreationOps
          /\ \A i \in DOMAIN pass'.tr :
                IsMutating(pass'.tr[i]) =>
                   \E j \in DOMAIN pass.tr : SameCall(pass.tr[j], pass'.tr[i])
          /\ obj'.status.ObservedGeneration = obj.status.ObservedGeneration
          /\ remote' = remote]_vars

(***************************************************************************)
(* C8.  A non-deletion pass that ends in a resolution or convergence       *)
(* failure, no status write of which met a conflict, returns a one-minute  *)
(* requeue.                                                                *)
(***************************************************************************)
C8_FixedRetryDelay ==
    (/\ NonDeletionPass
     /\ ResolutionFailed(pass.tr) \/ ConvergenceFailed(pass.tr)
     /\ ~Has(pass.tr, "StatusUpdate", "conflict")) =>
       pass.res.RequeueAfter = Minute

(***************************************************************************)
(* C9.  For every kind, a pass that stops at a status write that met a     *)
(* conflict (nothing else having failed) returns no error and a requeue of *)
(* at most a second, and leaves no Error=True in the store.                *)
(***************************************************************************)
C9_ConflictNotSurfaced ==
    (/\ NonDeletionPass
     /\ pass.tr # <<>> /\ Last(pass.tr).op = "StatusUpdate"
     /\ Last(pass.tr).out = "conflict"
     /\ ~ResolutionFailed(pass.tr) /\ ~ConvergenceFailed(pass.tr)) =>
       /\ ~pass.res.err
       /\ pass.res.RequeueAfter > 0 /\ pass.res.RequeueAfter <= Second
       /\ ConditionStatus(obj.status.Conditions, ConditionError) # "True"

C11_DeletionRunsOnlyCleanup ==
    [][(/\ pass'.ran /\ Has(pass'.tr, "Get", "ok")
        /\ obj.exists /\ obj.deleting) =>
          /\ \A i \in DOMAIN pass'.tr :
                /\ pass'.tr[i].op # "StatusUpdate"
                /\ pass'.tr[i].op = "Update" => RemovesFinalizer(pass'.tr[i])
                /\ IsMutating(pass'.tr[i]) =>
                      IsDelete(pass'.tr[i]) \/ pass'.tr[i].op = "RemoveObject"
          /\ obj'.exists => obj'.status = obj.status /\ obj'.spec = obj.spec]_vars

\* A teardown pass on a resource whose status says Ready, with an Error
\* condition from an earlier pass: its delete call failed, the status is as
\* it was.
C11_Witness ==
    /\ pass.ran /\ obj.exists /\ obj.deleting
    /\ DeleteFailed(pass.tr)
    /\ obj.status.Ready
    /\ ConditionStatus(obj.status.Conditions, ConditionError) = "True"

(***************************************************************************)
(* C12.  Deletion is never blocked forever: when passes keep being made    *)
(* and the store and the server answer, every resource that has a deletion *)
(* timestamp eventually has its finalizer removed, whatever the state of   *)
(* the store (the Alias or Endpoint it refers to not ready or deleted, the *)
(* secret incomplete).                                                     *)
(***************************************************************************)
C12_DeletionNeverBlocked ==
    (obj.exists /\ obj.deleting) ~> ~(obj.exists /\ obj.fin)

\* The pass called the server, and every call it made to the server failed.
TotalRemoteFailure(tr) ==
    /\ \E i \in DOMAIN tr : IsRemote(tr[i])
    /\ \A i \in DOMAIN tr : IsRemote(tr[i]) => tr[i].out = "error"

(***************************************************************************)
(* C13.  Total failure of the server: after a non-deletion pass of any     *)
(* kind, Alias and Endpoint included, in which every call to the server    *)
(* failed (and whose status writes succeeded), the stored status has ready *)
(* false and a further pass is scheduled (an error or a requeue delay is   *)
(* returned); an Alias or Endpoint whose health check failed does not end  *)
(* the pass with ready true.                                               *)
(***************************************************************************)
C13_TotalFailureDegrades ==
    (/\ NonDeletionPass
     /\ TotalRemoteFailure(pass.tr)
     /\ ~StatusWriteFailed(pass.tr)) =>
       /\ ~obj.status.Ready
       /\ pass.res.err \/ pass.res.RequeueAfter > 0

(***************************************************************************)
(* The vocabulary of the properties of the resolver.  resolution.calls are *)
(* the calls of buildClientConfig made with resolution.conn from the       *)
(* caller namespace Namespace, each with the store it read and the result  *)
(* it returned.                                                            *)
(***************************************************************************)
SourcesSet(conn) ==
    (IF conn.AliasRef # Nil THEN 1 ELSE 0) + (IF conn.EndpointRef # Nil THEN 1 ELSE 0)
    + (IF conn.URL # Nil THEN 1 ELSE 0)

ConfigurationErrors == {"NoSource"}

NotReadyErrors == {"AliasNotReady", "EndpointNotReady"}

SecretErrors == {"SecretNotFound", "AccessKeyMissing", "SecretKeyMissing"}

\* What a call returned: the error and the configuration.
Outcome(result) == [err |-> result.err, config |-> result.config]

(***************************************************************************)
(* C14.  For every connection block in which more than one of AliasRef,    *)
(* EndpointRef and URL is set, buildClientConfig fails with a              *)
(* configuration error and returns no configuration.                       *)
(***************************************************************************)
C14_SeveralSourcesRefused ==
    \A i \in DOMAIN resolution.calls :
       SourcesSet(resolution.conn) > 1 =>
          /\ resolution.calls[i].result.err \in ConfigurationErrors
          /\ resolution.calls[i].result.config = Nil

(***************************************************************************)
(* C15.  A connection block with none of AliasRef, EndpointRef and URL     *)
(* set: a pass on a resource that is not being deleted which comes to      *)
(* build its client gets the configuration error, with no store fetch made *)
(* by the resolver; the pass issues no remote call, ends with a status     *)
(* write of ready false, and returns a one-minute requeue and no error;    *)
(* when that write succeeds the store has Error=True and ready false.      *)
(***************************************************************************)
C15_NoSourceIsAConfigurationError ==
    (/\ NonDeletionPass
     /\ SourcesSet(ConnectionOf(kind, obj.spec)) = 0
     /\ kind \notin {"Alias", "Endpoint"}
     /\ \E i \in DOMAIN pass.tr : pass.tr[i].op = "NewClient") =>
       /\ \A i \in DOMAIN pass.tr :
             /\ pass.tr[i].op = "NewClient" => pass.tr[i].out \in ConfigurationErrors
             /\ pass.tr[i].op # "Fetch"
             /\ ~IsRemote(pass.tr[i])
       /\ pass.res = [RequeueAfter |-> Minute, err |-> FALSE]
       /\ Last(pass.tr).op = "StatusUpdate" /\ Last(pass.tr).arg = <<"false">>
       /\ Last(pass.tr).out = "ok" =>
             /\ ConditionStatus(obj.status.Conditions, ConditionError) = "True"
             /\ ~obj.status.Ready

\* A pass on a resource with no connection source that stored the error.
C15_Witness ==
    /\ NonDeletionPass
    /\ SourcesSet(ConnectionOf(kind, obj.spec)) = 0
    /\ Has(pass.tr, "NewClient", "NoSource")
    /\ Last(pass.tr) = Ev("StatusUpdate", "ok", <<"false">>)
    /\ ConditionStatus(obj.status.Conditions, ConditionError) = "True"

\* The block resolves through its AliasRef; through its EndpointRef (the
\* branch taken when neither AliasRef nor URL is set).
ThroughAlias(conn) == conn.AliasRef # Nil

ThroughEndpoint(conn) == conn.AliasRef = Nil /\ conn.URL = Nil /\ conn.EndpointRef # Nil

\* The Alias a1 (the Endpoint e1) is in the store and reports ready = r.
TargetReady(objects, name, r) ==
    /\ <<Namespace, name>> \in DOMAIN objects
    /\ objects[<<Namespace, name>>].Status.Ready = r

(***************************************************************************)
(* C16.  A connection that resolves through an AliasRef (an EndpointRef)   *)
(* whose Alias (Endpoint) has status ready false fails with the not-ready  *)
(* error, whatever the secret is (complete, lacking an entry, deleted):    *)
(* the only store fetch is that of the Alias (Endpoint), the secret is not *)
(* fetched, and no configuration is returned.                              *)
(***************************************************************************)
C16_NotReadyWhateverTheSecret ==
    \A i \in DOMAIN resolution.calls :
       LET call == resolution.calls[i]
       IN /\ (ThroughAlias(resolution.conn)
              /\ TargetReady(call.store.aliases, "a1", FALSE)) =>
                call.result = ResolveError("AliasNotReady", << <<"Alias", Namespace, "a1">> >>)
          /\ (ThroughEndpoint(resolution.conn)
              /\ TargetReady(call.store.endpoints, "e1", FALSE)) =>
                call.result =
                   ResolveError("EndpointNotReady", << <<"Endpoint", Namespace, "e1">> >>)

\* A call through an Alias that is not ready, against a store in which the
\* secret does not exist: the error is the not-ready error.
C16_Witness ==
    /\ ThroughAlias(resolution.conn)
    /\ \E i \in DOMAIN resolution.calls :
          /\ TargetReady(resolution.calls[i].store.aliases, "a1", FALSE)
          /\ DOMAIN resolution.calls[i].store.secrets = {}
          /\ resolution.calls[i].result.err \in NotReadyErrors

\* The block with only its references: its own URL, SecretRef and TLS unset.
OwnFieldsCleared(conn) == [conn EXCEPT !.URL = Nil, !.SecretRef = Nil, !.TLS = Nil]

(***************************************************************************)
(* C17.  Non-interference of the dependent's own fields: a connection      *)
(* block that sets AliasRef (or, with no AliasRef, EndpointRef) resolves   *)
(* to what the Alias (Endpoint) and its secret determine, that is, to the  *)
(* result of the same block with its own URL, SecretRef and TLS unset: the *)
(* same configuration, or the same error.                                  *)
(***************************************************************************)
C17_OwnFieldsDoNotInterfere ==
    \A i \in DOMAIN resolution.calls :
       (resolution.conn.AliasRef # Nil \/ resolution.conn.EndpointRef # Nil) =>
          Outcome(resolution.calls[i].result) =
             Outcome(buildClientConfig(resolution.calls[i].store,
                                       OwnFieldsCleared(resolution.conn), Namespace))

\* The secret reference a resolution takes the credentials from, as a set
\* (empty when it takes none): that of the ready Alias on the AliasRef
\* path, that of the ready Endpoint on the EndpointRef path, the block's
\* own on the URL path.
CredentialRefs(conn, store) ==
    IF ThroughAlias(conn)
    THEN IF TargetReady(store.aliases, "a1", TRUE)
         THEN {store.aliases[<<Namespace, "a1">>].Spec.SecretRef} ELSE {}
    ELSE IF ThroughEndpoint(conn)
    THEN IF TargetReady(store.endpoints, "e1", TRUE)
         THEN {store.endpoints[<<Namespace, "e1">>].Spec.SecretRef} ELSE {}
    ELSE IF conn.URL # Nil /\ conn.SecretRef # Nil
    THEN {Deref(conn.SecretRef)}
    ELSE {}

\* The names under which the two entries are looked up: the override of the
\* reference when it is not empty, the default otherwise.
EntryNames(ref) ==
    {IF ref.AccessKeyIDKey # "" THEN ref.AccessKeyIDKey ELSE "accessKeyID",
     IF ref.SecretAccessKeyKey # "" THEN ref.SecretAccessKeyKey ELSE "secretAccessKey"}

\* The secret of the reference does not exist or lacks one of the entries.
SecretUnusable(ref, store) ==
    \/ <<Namespace, ref.Name>> \notin DOMAIN store.secrets
    \/ \E name \in EntryNames(ref) :
          name \notin DOMAIN store.secrets[<<Namespace, ref.Name>>]

(***************************************************************************)
(* C18.  On the AliasRef, the EndpointRef and the URL path alike,          *)
(* resolution fails with a secret error and returns no configuration       *)
(* whenever the secret it takes the credentials from does not exist or     *)
(* lacks the access-key entry or the secret-key entry, each looked up      *)
(* under the override name of the SecretReference if that is not empty and *)
(* under "accessKeyID" / "secretAccessKey" otherwise.                      *)
(***************************************************************************)
C18_UnusableSecretIsASecretError ==
    \A i \in DOMAIN resolution.calls :
       \A ref \in CredentialRefs(resolution.conn, resolution.calls[i].store) :
          SecretUnusable(ref, resolution.calls[i].store) =>
             /\ resolution.calls[i].result.err \in SecretErrors
             /\ resolution.calls[i].result.config = Nil

\* A call through a ready Alias whose secret reference names no override,
\* against a secret that holds its entries under other names: the access
\* key is not found under "accessKeyID".
C18_Witness ==
    /\ ThroughAlias(resolution.conn)
    /\ \E i \in DOMAIN resolution.calls :
          LET store == resolution.calls[i].store
          IN /\ TargetReady(store.aliases, "a1", TRUE)
             /\ store.aliases[<<Namespace, "a1">>].Spec.SecretRef.AccessKeyIDKey = ""
             /\ <<Namespace, "s1">> \in DOMAIN store.secrets
             /\ "accessKeyID" \notin DOMAIN store.secrets[<<Namespace, "s1">>]
             /\ resolution.calls[i].result.err = "AccessKeyMissing"

Terminal(tr) ==
    ResolutionFailed(tr) \/ Has(tr, "reconcile", "ok") \/ Has(tr, "reconcile", "error")

(***************************************************************************)
(* C20.  Every pass that reaches a terminal outcome, success or error, the *)
(* failure of connection resolution included, writes status.lastSyncTime:  *)
(* after a non-deletion pass with a terminal outcome whose last status     *)
(* write succeeded, the stored lastSyncTime is the time of the pass.       *)
(***************************************************************************)
C20_LastSyncTimeOnEveryOutcome ==
    (/\ NonDeletionPass
     /\ Terminal(pass.tr)
     /\ Last(pass.tr).op = "StatusUpdate" /\ Last(pass.tr).out = "ok") =>
       obj.status.LastSyncTime = now

\* The resource-specific fields a status projects from the resource and the
\* server: the bucket name and region, the username, the policy name and
\* hash, the URL, the health and version fields.
Projected(k, status) ==
    CASE k = "Bucket" -> <<status.BucketName, status.Region>>
      [] k = "User" -> <<status.Username>>
      [] k = "Policy" -> <<status.PolicyName, status.PolicyHash>>
      [] k = "PolicyAttachment" -> <<status.PolicyName>>
      [] k \in {"Alias", "Endpoint"} ->
           <<status.URL, status.Healthy, status.LastHealthCheck, status.Version,
             status.Region>>

(***************************************************************************)
(* C21.  The projected status fields change only in a pass that ends in    *)
(* success: a non-deletion pass that ends in error (resolution or          *)
(* convergence failed) leaves every projected field of the stored status   *)
(* as it was before the pass.                                              *)
(***************************************************************************)
C21_ProjectedFieldsOnlyOnSuccess ==
    [][(/\ pass'.ran /\ obj.exists /\ ~obj.deleting /\ obj'.exists
        /\ ResolutionFailed(pass'.tr) \/ ConvergenceFailed(pass'.tr)) =>
          Projected(kind, obj'.status) = Projected(kind, obj.status)]_vars

\* The condition types a list holds.
TypesOf(conditions) == {conditions[i].Type : i \in DOMAIN conditions}

(***************************************************************************)
(* C22.  A condition type that appears in the stored status is present in  *)
(* every later stored status of the resource: no step removes a condition, *)
(* passes only rewrite the fields of the conditions they set.              *)
(***************************************************************************)
C22_ConditionTypesStay ==
    [][(obj.exists /\ obj'.exists) =>
          TypesOf(obj.status.Conditions) \subseteq TypesOf(obj'.status.Conditions)]_vars

\* A pass has reached Ready on a status that already held an Error
\* condition: the three types are stored, the Error condition still there.
C22_Witness ==
    /\ pass.ran /\ obj.exists
    /\ TypesOf(obj.status.Conditions) =
          {ConditionReady, ConditionProgressing, ConditionError}
    /\ ConditionStatus(obj.status.Conditions, ConditionReady) = "True"
    /\ ConditionStatus(obj.status.Conditions, ConditionError) = "True"

\* No two conditions of the list have the same type.
OnePerType(conditions) ==
    \A i, j \in DOMAIN conditions :
        conditions[i].Type = conditions[j].Type => i = j

\* The types of a list, in the order of the list.
TypeOrder(conditions) == [i \in DOMAIN conditions |-> conditions[i].Type]

(***************************************************************************)
(* C23.  Starting from an empty list, after any sequence of SetCondition   *)
(* calls the list holds at most one condition of each type, and a call     *)
(* keeps the conditions already in the list in their relative order (it    *)
(* rewrites one in place or appends at the end).                           *)
(***************************************************************************)
C23_OnePerTypeInOrder ==
    /\ [](OnePerType(obj.status.Conditions))
    /\ [][SubSeq(TypeOrder(obj'.status.Conditions), 1, Len(obj.status.Conditions))
             = TypeOrder(obj.status.Conditions)]_vars

\* The list holds two types and the last call, the third, named the type
\* of its first entry: the call has rewritten that entry in place.
C23_Witness ==
    /\ pass.ran /\ Len(pass.tr) = 1 /\ pass.tr[1].op = "SetCondition"
    /\ now = 4
    /\ Len(obj.status.Conditions) = 2
    /\ obj.status.Conditions[1].Type = pass.tr[1].arg[1]
    /\ obj.status.Conditions[1].Reason = pass.tr[1].arg[2]

(***************************************************************************)
(* C24.  A SetCondition call on a type the list already holds assigns the  *)
(* time of the call to lastTransitionTime exactly when the new status      *)
(* differs from the stored one; with the same status lastTransitionTime is *)
(* kept; in both cases the status, the reason and the message are the      *)
(* call's and the conditions of the other types are unchanged.             *)
(***************************************************************************)
C24_TransitionTimeFollowsStatus ==
    [][(pass'.ran /\ pass'.tr[1].op = "SetCondition"
        /\ pass'.tr[1].arg[1] \in TypesOf(obj.status.Conditions)) =>
          LET old == obj.status.Conditions
              new == obj'.status.Conditions
              i == IndexOf(old, pass'.tr[1].arg[1])
          IN /\ Len(new) = Len(old)
             /\ \A j \in DOMAIN old : j # i => new[j] = old[j]
             /\ new[i].Type = old[i].Type
             /\ new[i].Status = pass'.tr[1].out
             /\ new[i].Reason = pass'.tr[1].arg[2]
             /\ new[i].Message = pass'.tr[1].arg[3]
             /\ (new[i].LastTransitionTime # old[i].LastTransitionTime)
                   <=> (old[i].Status # pass'.tr[1].out)
             /\ new[i].LastTransitionTime \in {old[i].LastTransitionTime, now}]_vars

\* The last call named a type the list held with the same status: the
\* condition keeps a transition time earlier than the call, next to a
\* condition of another type.
C24_Witness ==
    /\ pass.ran /\ Len(pass.tr) = 1 /\ pass.tr[1].op = "SetCondition"
    /\ Len(obj.status.Conditions) >= 2
    /\ \E i \in DOMAIN obj.status.Conditions :
          /\ obj.status.Conditions[i].Type = pass.tr[1].arg[1]
          /\ obj.status.Conditions[i].Status = pass.tr[1].out
          /\ obj.status.Conditions[i].Message = pass.tr[1].arg[3]
          /\ obj.status.Conditions[i].LastTransitionTime < now - 1

\* The delay the next pass of a Ready resource is to be scheduled at.
ReadyDelay(k, spec) ==
    IF k \in {"Alias", "Endpoint"}
    THEN IF /\ spec.HealthCheck # Nil
            /\ Deref(spec.HealthCheck).Enabled
            /\ Deref(spec.HealthCheck).IntervalSeconds # Nil
         THEN Deref(Deref(spec.HealthCheck).IntervalSeconds) * Second
         ELSE 5 * Minute
    ELSE Hour

(***************************************************************************)
(* C25.  Every pass that ends Ready schedules the next pass at a fixed,    *)
(* strictly positive delay: one hour for a Bucket, User, Policy or         *)
(* PolicyAttachment; for an Alias or Endpoint the configured               *)
(* spec.healthCheck.intervalSeconds when health checking is enabled and    *)
(* the interval is set, five minutes otherwise.                            *)
(***************************************************************************)
C25_ReadyPassSchedulesNext ==
    (ReachedReady(pass) /\ obj.exists /\ ~obj.deleting) =>
        /\ pass.res.RequeueAfter > 0
        /\ pass.res.RequeueAfter = ReadyDelay(kind, obj.spec)

(***************************************************************************)
(* C26.  A non-deletion pass that ends in failure (the connection is not   *)
(* resolved, or a remote call fails) leaves the finalizers of the resource *)
(* exactly as they were when the pass started.                             *)
(***************************************************************************)
C26_FailedPassKeepsFinalizer ==
    [][(/\ pass'.ran /\ obj.exists /\ ~obj.deleting
        /\ ResolutionFailed(pass'.tr) \/ RemoteCallFailed(pass'.tr)) =>
          /\ obj'.exists
          /\ obj'.fin = obj.fin
          /\ obj'.otherFin = obj.otherFin]_vars

\* The place of the first status write in the calls of a pass, 0 without one.
FirstStatusWrite(tr) ==
    LET writes == {i \in DOMAIN tr : tr[i].op = "StatusUpdate"}
    IN IF writes = {} THEN 0 ELSE CHOOSE i \in writes : \A j \in writes : i <= j

\* The call belongs to the resolution of the connection or goes to the server.
IsWork(e) == e.op \in {"NewClient", "Fetch"} \/ IsRemote(e)

(***************************************************************************)
(* C27.  In a non-deletion pass of a resource that has its finalizer, the  *)
(* first status write comes before the resolution of the connection and    *)
(* before every remote call, and it stores Progressing = True with         *)
(* observedGeneration equal to the generation; when that write fails the   *)
(* pass ends with no resolution and no remote call.                        *)
(***************************************************************************)
C27_ProgressingPersistedBeforeWork ==
    [][(pass'.ran /\ obj.exists /\ ~obj.deleting /\ obj.fin) =>
          LET tr == pass'.tr
              w == FirstStatusWrite(tr)
          IN /\ \A i \in DOMAIN tr :
                    IsWork(tr[i]) => (w # 0 /\ w < i /\ tr[w].out = "ok")
             /\ (w # 0 /\ tr[w].out = "ok") =>
                   /\ obj'.status.ObservedGeneration = obj.gen
                   /\ ConditionProgressing \in TypesOf(obj'.status.Conditions)
                   /\ (\A i \in DOMAIN tr :
                          (i > w /\ tr[i].op = "StatusUpdate") => tr[i].out # "ok")
                      => ConditionStatus(obj'.status.Conditions,
                                         ConditionProgressing) = "True"]_vars

\* A pass on a resource with its finalizer wrote the Progressing status,
\* resolved the connection, failed on a remote call and could not write the
\* Error status: the store holds what the first write left.
C27_Witness ==
    /\ NonDeletionPass /\ obj.fin /\ ~Has(pass.tr, "Update", "ok")
    /\ FirstStatusWrite(pass.tr) = 2 /\ pass.tr[2].out = "ok"
    /\ Has(pass.tr, "NewClient", "ok") /\ RemoteCallFailed(pass.tr)
    /\ Last(pass.tr).op = "StatusUpdate" /\ Last(pass.tr).out # "ok"
    /\ obj.status.ObservedGeneration = obj.gen /\ obj.gen = 2
    /\ ConditionStatus(obj.status.Conditions, ConditionProgressing) = "True"

\* The connection block names the URL as its only source and a secret
\* reference that keeps the default entry names.
DirectURL(conn) ==
    /\ conn.URL # Nil /\ conn.AliasRef = Nil /\ conn.EndpointRef = Nil
    /\ conn.SecretRef # Nil
    /\ Deref(conn.SecretRef).AccessKeyIDKey = ""
    /\ Deref(conn.SecretRef).SecretAccessKeyKey = ""

\* The secret the reference names exists in the caller's namespace and
\* holds the two entries under their default names.
HoldsDefaultEntries(store, ref) ==
    /\ <<Namespace, ref.Name>> \in DOMAIN store.secrets
    /\ {"accessKeyID", "secretAccessKey"} \subseteq
          DOMAIN store.secrets[<<Namespace, ref.Name>>]

(***************************************************************************)
(* C28.  A connection block with only the URL set and a SecretRef to a     *)
(* secret that holds both default-named entries resolves without error:    *)
(* the endpoint is the URL, the access key and the secret key are the      *)
(* secret's values, path-style is false, the region is empty, and          *)
(* TLS-insecure is false unless the block's own TLS settings say insecure. *)
(***************************************************************************)
C28_DirectURLResolution ==
    DirectURL(resolution.conn) =>
       \A i \in DOMAIN resolution.calls :
          LET conn == resolution.conn
              store == resolution.calls[i].store
              result == resolution.calls[i].result
              ref == Deref(conn.SecretRef)
          IN HoldsDefaultEntries(store, ref) =>
                /\ result.err = ""
                /\ result.config # Nil
                /\ Deref(result.config).Endpoint = Deref(conn.URL)
                /\ Deref(result.config).AccessKeyID =
                      store.secrets[<<Namespace, ref.Name>>]["accessKeyID"]
                /\ Deref(result.config).SecretAccessKey =
                      store.secrets[<<Namespace, ref.Name>>]["secretAccessKey"]
                /\ Deref(result.config).PathStyle = FALSE
                /\ Deref(result.config).Region = ""
                /\ Deref(result.config).Insecure =
                      (conn.TLS # Nil /\ Deref(conn.TLS).Insecure)

\* A call with a URL-only block whose TLS block says insecure, against a
\* complete secret: the configuration carries the secret's values and
\* Insecure.
C28_Witness ==
    /\ DirectURL(resolution.conn)
    /\ resolution.conn.TLS # Nil /\ Deref(resolution.conn.TLS).Insecure
    /\ \E i \in DOMAIN resolution.calls :
          /\ HoldsDefaultEntries(resolution.calls[i].store,
                                 Deref(resolution.conn.SecretRef))
          /\ resolution.calls[i].result.err = ""
          /\ Deref(resolution.calls[i].result.config).Insecure
          /\ Deref(resolution.calls[i].result.config).AccessKeyID = "s2-key"

\* The step is a pass on a resource that is not being deleted, in which the
\* connection is resolved and every store and remote call succeeds: the
\* spec, the dependencies and the server are left alone.
QuietStep ==
    /\ pass'.ran /\ CallsSucceeded(pass'.tr)
    /\ obj.exists /\ ~obj.deleting

\* The connection of the resource can be resolved against the store.
Resolvable ==
    buildClientConfig(k8s,
                      IF kind \in {"Alias", "Endpoint"}
                      THEN MinIOConnection(Nil, Some(obj.spec.URL), Nil,
                                           Some(obj.spec.SecretRef))
                      ELSE obj.spec.Connection,
                      Namespace).err = ""

\* The user a PolicyAttachment names exists on the server: the lookup of
\* the target is answered.
TargetPresent == kind = "PolicyAttachment" => remote.user.exists

\* Ready = True is stored for the current generation.
Converged ==
    /\ obj.exists /\ obj.status.Ready
    /\ ConditionStatus(obj.status.Conditions, ConditionReady) = "True"
    /\ obj.status.ObservedGeneration = obj.gen

(***************************************************************************)
(* C30.  Convergence: under fair scheduling of the requeued passes, when   *)
(* from some point on the spec is unchanged, the connection is resolved    *)
(* and the remote calls succeed, a resource that is not deleted eventually *)
(* has Ready = True with observedGeneration equal to its generation, from  *)
(* every reachable state.                                                  *)
(***************************************************************************)
C30_Convergence ==
    (/\ <>[](obj.exists /\ ~obj.deleting /\ Resolvable /\ TargetPresent)
     /\ <>[][QuietStep]_vars)
        => <>[]Converged

\* The pass was abandoned before its return.
Abandoned(ps) == ps.ran /\ ps.tr # <<>> /\ Last(ps.tr).op = "abandoned"

\* The calls of the pass that created the remote object: MakeBucket,
\* AddUser, and AddCannedPolicy in the branch taken for a policy the server
\* does not have (the same call also rewrites a policy that exists).
Creations(tr) ==
    {i \in DOMAIN tr :
        /\ tr[i].out = "ok"
        /\ \/ tr[i].op \in {"MakeBucket", "AddUser"}
           \/ tr[i].op = "AddCannedPolicy" /\ ~Has(tr, "InfoCannedPolicy", "ok")}

\* The remote object of the resource exists on the server.
RemoteObject(k, rm) ==
    CASE k = "Bucket" -> rm.bucket.exists
      [] k = "User" -> rm.user.exists
      [] k = "Policy" -> rm.policy # ""
      [] OTHER -> FALSE

(***************************************************************************)
(* C29.  Restart safety: after a pass abandoned between two of its calls   *)
(* (after the finalizer write, after the Progressing status write, after   *)
(* a remote create call, before the final status write), the later passes, *)
(* started from what the store and the server hold, still drive the        *)
(* resource to Ready; and the remote object is created at most once over   *)
(* the whole history: a pass creates it with one call and only when the    *)
(* server does not have it, and once created it stays.                     *)
(***************************************************************************)
C29_RestartSafety ==
    /\ Abandoned(pass) ~> Converged
    /\ [][/\ Creations(pass'.tr) # {} =>
                /\ ~RemoteObject(kind, remote)
                /\ Cardinality(Creations(pass'.tr)) = 1
          /\ RemoteObject(kind, remote) => RemoteObject(kind, remote')]_vars

\* A pass of a Bucket was abandoned right after MakeBucket succeeded: the
\* bucket is on the server, and the status still says Progressing.
C29_Witness ==
    /\ Abandoned(pass) /\ kind = "Bucket"
    /\ Len(pass.tr) >= 2 /\ pass.tr[Len(pass.tr) - 1] .op = "MakeBucket"
    /\ pass.tr[Len(pass.tr) - 1].out = "ok"
    /\ remote.bucket.exists /\ ~obj.status.Ready

\* The pass wrote to the store.
StoreWritten(tr) == \E i \in DOMAIN tr : tr[i].op \in {"Update", "StatusUpdate"}
(***************************************************************************)
(* Resources that may carry a finalizer of another controller: the store   *)
(* keeps such a resource after the controller has removed its own          *)
(* finalizer, and the controller is still handed the resource.             *)
(***************************************************************************)
ForeignInit ==
    /\ kind \in Kinds
    /\ \E conn \in Connections, foreign \in BOOLEAN :
          obj = [exists |-> TRUE, deleting |-> FALSE, fin |-> FALSE,
                 otherFin |-> foreign, gen |-> 1, spec |-> FirstSpec(kind, conn),
                 status |-> EmptyStatus(kind)]
    /\ k8s = Store(TRUE, TRUE)
    /\ remote = RemoteInit(kind)
    /\ now = 1
    /\ pass = NoPass
    /\ resolution = NoResolution

ForeignSpec == ForeignInit /\ [][Next]_vars


(***************************************************************************)
(* C39.  A pass on a resource that is no longer in the store, or on a      *)
(* resource that has a deletion timestamp and not the finalizer of its     *)
(* kind, changes nothing: once the store has answered the read, the pass   *)
(* makes no remote call and no store write, returns no error and no        *)
(* requeue, and the store and the server are left as they were.            *)
(***************************************************************************)
C39_NothingLeftToDo ==
    [][(/\ pass'.ran
        /\ ~obj.exists \/ (obj.deleting /\ ~obj.fin)
        /\ ~Has(pass'.tr, "Get", "error")) =>
          /\ \A i \in DOMAIN pass'.tr : ~IsRemote(pass'.tr[i])
          /\ ~StoreWritten(pass'.tr)
          /\ ~Has(pass'.tr, "NewClient", "ok") /\ ~ResolutionFailed(pass'.tr)
          /\ pass'.res = NoResult
          /\ obj' = obj /\ remote' = remote /\ k8s' = k8s]_vars

\* A pass has run on a resource that another finalizer keeps in the store
\* after its own finalizer was removed: it read the resource and returned.
C39_Witness ==
    /\ pass.ran /\ obj.exists /\ obj.deleting /\ ~obj.fin /\ obj.otherFin
    /\ pass.tr = <<Ev("Get", "ok", <<>>)>>
    /\ pass.res = NoResult

\* A pass has run on a resource the store has erased.
C39_WitnessGone ==
    /\ pass.ran /\ ~obj.exists
    /\ pass.tr = <<Ev("Get", "notfound", <<>>)>>

(***************************************************************************)
(* C34.  In every stored status, of every kind, status.ready and the Ready *)
(* condition agree: status.ready is true exactly when the conditions hold  *)
(* a Ready condition whose status is True.                                 *)
(***************************************************************************)
C34_ReadyAgreesWithCondition ==
    obj.exists =>
        (obj.status.Ready <=>
            ConditionStatus(obj.status.Conditions, ConditionReady) = "True")

(***************************************************************************)
(* C35.  After every successful Bucket pass the versioning state and the   *)
(* tag set of the remote bucket equal the spec's: versioning is enabled    *)
(* exactly when spec.versioning is true, and the remote tags are           *)
(* spec.tags, also after the spec went from versioning to no versioning    *)
(* or from some tags to none.                                              *)
(***************************************************************************)
C35_VersioningAndTagsFollowSpec ==
    (kind = "Bucket" /\ NonDeletionPass /\ Succeeded(pass)) =>
        /\ remote.bucket.exists
        /\ remote.bucket.versioning = obj.spec.Versioning
        /\ remote.bucket.tags = obj.spec.Tags

(***************************************************************************)
(* C32.  After every successful Policy pass the remote canned policy named *)
(* spec.policyName has exactly the document in spec.policy, also when the  *)
(* remote document was changed behind the controller's back while the spec *)
(* and the stored policyHash stayed the same.                              *)
(***************************************************************************)
C32_PolicyDocumentReasserted ==
    (kind = "Policy" /\ NonDeletionPass /\ Succeeded(pass)) =>
        remote.policy = obj.spec.Policy

\* The call has set the account to enabled: an answered AddUser, or SetUser
\* or SetUserStatus with AccountEnabled.
Enables(e) ==
    /\ e.out = "ok"
    /\ \/ e.op = "AddUser"
       \/ e.op = "SetUser" /\ e.arg[3] = "enabled"
       \/ e.op = "SetUserStatus" /\ e.arg[2] = "enabled"

(***************************************************************************)
(* C33.  For a User whose spec status is disabled, no pass issues a remote *)
(* call that sets the account to enabled, and at the end of every pass,    *)
(* successful or failed part-way, in which the user exists on the server   *)
(* the account is not enabled.                                             *)
(***************************************************************************)
C33_DisabledUserNeverEnabled ==
    (kind = "User" /\ NonDeletionPass /\ obj.spec.Status = "disabled") =>
        /\ \A i \in DOMAIN pass.tr : ~Enables(pass.tr[i])
        /\ remote.user.exists => ~remote.user.enabled

\* The pointer holds a non-empty name.
Named(ptr) == ptr # Nil /\ Deref(ptr) # ""

\* The target a remote call of the PolicyAttachment controller names.
TargetOf(e) ==
    IF e.op = "SetPolicy" THEN e.arg[2] ELSE e.arg[1]

(***************************************************************************)
(* C36.  resolveTarget returns an error unless exactly one of target.user  *)
(* and target.group is a non-empty name (a serviceAccount target is        *)
(* rejected); whenever it returns no error the name it returns is not      *)
(* empty, so no pass of a PolicyAttachment looks up, attaches to or        *)
(* detaches from an empty target.  Stated of the passes that have built    *)
(* the client, which are the passes that call resolveTarget.               *)
(***************************************************************************)
C36_TargetIsOneNonEmptyName ==
    (kind = "PolicyAttachment" /\ obj.exists /\ pass.ran
        /\ Has(pass.tr, "NewClient", "ok")) =>
        LET target == obj.spec.Target
            t == resolveTarget(target)
        IN /\ t.err = "" =>
                /\ Named(target.User) # Named(target.Group)
                /\ ~Named(target.ServiceAccount)
                /\ t.name # ""
           /\ \A i \in DOMAIN pass.tr :
                 pass.tr[i].op \in {"GetUserInfo", "SetPolicy"} =>
                     TargetOf(pass.tr[i]) # ""

\* The values a secret holds.
ValuesOf(data) == {data[k] : k \in DOMAIN data}

\* The credentials of the configuration were read from a secret of the
\* store: the call fetched a secret that holds both values.
ReadFromSecret(call) ==
    \E i \in DOMAIN call.result.gets :
        LET get == call.result.gets[i]
            key == <<get[2], get[3]>>
        IN /\ get[1] = "Secret"
           /\ key \in DOMAIN call.store.secrets
           /\ Deref(call.result.config).AccessKeyID \in ValuesOf(call.store.secrets[key])
           /\ Deref(call.result.config).SecretAccessKey \in ValuesOf(call.store.secrets[key])

(***************************************************************************)
(* C37.  Every successful resolution returns an access key and a secret    *)
(* key that were read from a secret of the store: resolution never         *)
(* succeeds with credentials that were not read from a secret, and a       *)
(* connection with a URL and no SecretRef does not resolve.                *)
(***************************************************************************)
C37_CredentialsComeFromSecret ==
    \A i \in DOMAIN resolution.calls :
        resolution.calls[i].result.err = "" => ReadFromSecret(resolution.calls[i])

\* The namespace a reference names, or fallback when it names none.
NamespaceOr(ptr, fallback) == IF ptr # Nil THEN Deref(ptr) ELSE fallback

\* The reference to an Alias or Endpoint that the call followed, if any.
FollowedRef(conn) ==
    IF conn.AliasRef # Nil THEN conn.AliasRef
    ELSE IF conn.URL # Nil THEN Nil
    ELSE conn.EndpointRef

\* The call fetched the Alias or Endpoint from the namespace its reference
\* names, or from the caller's.
TargetFromItsNamespace(conn, call) ==
    FollowedRef(conn) # Nil =>
        LET ref == Deref(FollowedRef(conn))
        IN call.result.gets[1] =
              <<IF conn.AliasRef # Nil THEN "Alias" ELSE "Endpoint",
                NamespaceOr(ref.Namespace, Namespace), ref.Name>>

\* The call fetched the secret of the SecretRef it used from the namespace
\* the SecretRef names; one without a namespace is looked up in the
\* caller's namespace when fromCaller, else in the namespace of the object
\* that carries the SecretRef.  A successful call returned that secret's
\* entries.
SecretFromItsNamespace(conn, call, fromCaller) ==
    LET gets == call.result.gets
        get == gets[Len(gets)]
        viaRef == FollowedRef(conn) # Nil
        objects == IF conn.AliasRef # Nil THEN call.store.aliases
                   ELSE call.store.endpoints
        carrier == IF viaRef
                   THEN NamespaceOr(Deref(FollowedRef(conn)).Namespace, Namespace)
                   ELSE Namespace
        secretRef == IF viaRef
                     THEN objects[<<carrier, Deref(FollowedRef(conn)).Name>>].Spec.SecretRef
                     ELSE Deref(conn.SecretRef)
        expected == NamespaceOr(secretRef.Namespace,
                                IF fromCaller THEN Namespace ELSE carrier)
    IN (gets # <<>> /\ get[1] = "Secret") =>
          /\ get = <<"Secret", expected, secretRef.Name>>
          /\ call.result.err = "" =>
                /\ Deref(call.result.config).AccessKeyID = expected \o "-key"
                /\ Deref(call.result.config).SecretAccessKey = expected \o "-secret"

\* The namespace rule as stated: a SecretRef without a namespace is looked
\* up in the caller's namespace, also when it is the SecretRef of an Alias
\* or Endpoint of another namespace.
C38_SecretFromCallerNamespace ==
    \A i \in DOMAIN resolution.calls :
        /\ TargetFromItsNamespace(resolution.conn, resolution.calls[i])
        /\ SecretFromItsNamespace(resolution.conn, resolution.calls[i], TRUE)

(***************************************************************************)
(* C38.  The namespace rule of the resolver: the Alias or Endpoint is      *)
(* fetched from the namespace its reference names, otherwise from the      *)
(* caller's namespace; the credentials secret is fetched from the          *)
(* namespace its SecretRef names, otherwise from the namespace of the      *)
(* object that carries the SecretRef: the namespace the Alias or Endpoint  *)
(* was fetched from, or the caller's for the SecretRef of a URL            *)
(* connection.                                                             *)
(***************************************************************************)
C38_NamespaceRule ==
    \A i \in DOMAIN resolution.calls :
        /\ TargetFromItsNamespace(resolution.conn, resolution.calls[i])
        /\ SecretFromItsNamespace(resolution.conn, resolution.calls[i], FALSE)

\* A connection through the Alias of the other namespace, whose SecretRef
\* names no namespace, has resolved with the secret of the other namespace.
C38_Witness ==
    /\ resolution.conn.AliasRef = Some([Name |-> "a1", Namespace |-> Some(OtherNamespace)])
    /\ Len(resolution.calls) > 0
    /\ resolution.calls[1].result.err = ""
    /\ resolution.calls[1].store.aliases[<<OtherNamespace, "a1">>].Spec.SecretRef.Namespace = Nil
    /\ resolution.calls[1].result.gets =
          << <<"Alias", OtherNamespace, "a1">>, <<"Secret", OtherNamespace, "s1">> >>
    /\ Deref(resolution.calls[1].result.config).AccessKeyID = OtherNamespace \o "-key"

\* The pass has removed the remote entity of its resource.
RemovedEntity(tr) == Has(tr, "RemoveBucket", "ok") \/ Has(tr, "RemoveUser", "ok")

(***************************************************************************)
(* C31.  With two resources of one kind that name the same remote entity,  *)
(* reconciled in any interleaving, the controller deletes the remote       *)
(* entity only when no resource that is not deleted still declares it: the *)
(* teardown of one resource never removes a remote entity that the other,  *)
(* existing resource reports as Ready.                                     *)
(***************************************************************************)
C31_SharedEntityOutlivesTeardown ==
    [][(pass'.ran /\ RemovedEntity(pass'.tr)) =>
          ~(k8s.peer.exists /\ ~k8s.peer.deleting /\ k8s.peer.status.Ready)]_vars

=============================================================================
